---- MODULE Spec2Model ----
(***************************************************************************)
(* Model of the package patch engine of Target_app.py: the ZIP / XML       *)
(* helpers and the inline-string writer (lines 36-81 and 603-769).         *)
(*                                                                         *)
(* Representation.                                                         *)
(*   - A text is a sequence of characters; a character is one of the       *)
(*     tokens of Alphabet, one per class of the two tests the code makes   *)
(*     (the character class of _INVALID_XML_CHARS, and str.isspace).       *)
(*   - Column letters are sequences over "A".."Z".                         *)
(*   - A range attribute (dimension/@ref, mergeCell/@ref, autoFilter/@ref, *)
(*     table/@ref) is a record [form, c1, r1, c2, r2]: form "range" is     *)
(*     "A1:F2", form "cell" is "F2" (no colon), form "abs" is "$A$1:$F$2". *)
(*   - An optional element is a sequence of length 0 or 1.                 *)
(*   - An XML part is a record; ok = FALSE is a part ET.fromstring rejects.*)
(***************************************************************************)
EXTENDS Integers, Sequences, FiniteSets, TLC

VARIABLES
    \* ---- fast_patch_template: arguments, locals, position, result
    master,          \* the input package: sequence of [name, body]
    sheet_name, header_row, start_row, used_cols, block_2d,
    pc,              \* position inside fast_patch_template
    sheet_path, table_paths, max_cols, new_sheet_xml, last_row,
    patched_tables,  \* sequence of [name, body], one per table patched
    tp_i,            \* index of the next table path of the running loop
    item_i,          \* index of the next ZIP entry of the assembling loop
    zout,            \* the output package under construction
    result,          \* <<>> until returned, then <<package>>
    namespace_map,   \* ElementTree's process-wide prefix registry: the
                     \* namespace that owns the default ("") prefix
    \* ---- _patch_sheet_xml applied on its own
    ws_in, ws_args, ws_out, ws_pc,
    \* ---- the cell text conversion applied on its own
    txt_val, txt_out, txt_pc,
    \* ---- two sessions of the app that run their script in one process
    sessions,        \* session -> the position and locals of its run
    \* ---- the column conversions applied on their own
    col_n, col_letters, col_back, col_pc

pkgVars  == <<master, sheet_name, header_row, start_row, used_cols, block_2d,
              pc, sheet_path, table_paths, max_cols, new_sheet_xml, last_row,
              patched_tables, tp_i, item_i, zout, result, namespace_map>>
wsVars   == <<ws_in, ws_args, ws_out, ws_pc>>
txtVars  == <<txt_val, txt_out, txt_pc>>
concVars == <<sessions>>
colVars  == <<col_n, col_letters, col_back, col_pc>>
vars     == <<pkgVars, wsVars, txtVars, concVars, colVars>>

(***************************************************************************)
(* Bounds of the model.                                                    *)
(***************************************************************************)
MaxTextLen   == 3   \* longest text of the text specification
MaxOrigRow   == 4   \* the template's sheetData holds rows 1..n, n <= MaxOrigRow
MaxBlockRows == 2   \* R, the number of rows of the Data Block
MaxCols      == 2   \* the supplied column count
MaxSheets    == 2   \* sheet entries of a workbook of the resolver specification
MaxRels      == 2   \* relationships of its workbook relationship table
MaxColNumber == 750 \* largest column number of the column specification

Max(a, b) == IF a >= b THEN a ELSE b

(***************************************************************************)
(* Template constants (lines 31-34).                                       *)
(***************************************************************************)
MASTER_TEMPLATE_SHEET == "Bulk Product Data"
MASTER_DISPLAY_ROW    == 1
MASTER_SECONDARY_ROW  == 2
MASTER_DATA_START_ROW == 3

XL_NS_MAIN == "http://schemas.openxmlformats.org/spreadsheetml/2006/main"
CT_NS      == "http://schemas.openxmlformats.org/package/2006/content-types"

(***************************************************************************)
(* Text.                                                                   *)
(*   "a"     an ordinary character                                         *)
(*   " "     U+0020: white space, valid in XML                             *)
(*   "x01"   U+0001: a control character that is not white space           *)
(*   "x1F"   U+001F: a control character that str.isspace accepts (so do   *)
(*           U+000B, U+000C, U+001C..U+001E)                               *)
(*   "uD800" a surrogate code point                                        *)
(***************************************************************************)
Alphabet == {"a", " ", "x01", "x1F", "uD800"}

\* the character class of _INVALID_XML_CHARS (line 45)
_INVALID_XML_CHARS == {"x01", "x1F", "uD800"}

\* str.isspace, which str.strip() with no argument uses
isspace(ch) == ch \in {" ", "x1F"}

RECURSIVE RemoveInvalid(_)
RemoveInvalid(s) ==
    IF s = <<>> THEN <<>>
    ELSE IF Head(s) \in _INVALID_XML_CHARS THEN RemoveInvalid(Tail(s))
    ELSE <<Head(s)>> \o RemoveInvalid(Tail(s))

\* line 46
sanitize_xml_text(s) == RemoveInvalid(s)

RECURSIVE lstrip(_)
lstrip(s) == IF s # <<>> /\ isspace(Head(s)) THEN lstrip(Tail(s)) ELSE s

RECURSIVE rstrip(_)
rstrip(s) ==
    IF s # <<>> /\ isspace(s[Len(s)]) THEN rstrip(SubSeq(s, 1, Len(s) - 1)) ELSE s

\* str.strip()
strip(s) == rstrip(lstrip(s))

\* a plausible slip: the text is trimmed before the control characters go
CellTextStripFirst(val) ==
    IF val = <<>> THEN <<>> ELSE sanitize_xml_text(strip(val))

\* a plausible slip: the text is not trimmed before the emptiness test
CellTextNoStrip(val) == IF val = <<>> THEN <<>> ELSE sanitize_xml_text(val)

\* a plausible slip: the text is trimmed and written as it is
CellTextNoSanitize(val) == IF val = <<>> THEN <<>> ELSE strip(val)

\* line 698: txt = sanitize_xml_text(val).strip() if val else ""
CellText(val) ==
    IF val = <<>> THEN <<>> ELSE strip(sanitize_xml_text(val))

(***************************************************************************)
(* Column letters (lines 72-81).                                           *)
(***************************************************************************)
Letters == <<"A", "B", "C", "D", "E", "F", "G", "H", "I", "J", "K", "L", "M",
             "N", "O", "P", "Q", "R", "S", "T", "U", "V", "W", "X", "Y", "Z">>

\* ord(ch.upper()) - 64
LetterOrd(ch) == CHOOSE k \in 1..26 : Letters[k] = ch

\* a plausible slip: the remainder is taken of n, not of n - 1 (plain base 26)
RECURSIVE ColLetterPlainBase26(_)
ColLetterPlainBase26(n) ==
    IF n = 0 THEN <<>>
    ELSE ColLetterPlainBase26(n \div 26) \o <<Letters[(n % 26) + 1]>>

RECURSIVE _col_letter(_)
_col_letter(n) ==
    IF n = 0 THEN <<>>
    ELSE _col_letter((n - 1) \div 26) \o <<Letters[((n - 1) % 26) + 1]>>

RECURSIVE ColNumberFrom(_, _)
ColNumberFrom(letters, n) ==
    IF letters = <<>> THEN n
    ELSE ColNumberFrom(Tail(letters), n * 26 + LetterOrd(Head(letters)))

_col_number(letters) == ColNumberFrom(letters, 0)

(***************************************************************************)
(* Range attributes.                                                       *)
(***************************************************************************)
Range(c1, r1, c2, r2) == [form |-> "range", c1 |-> c1, r1 |-> r1, c2 |-> c2, r2 |-> r2]
Cell1(c, r)           == [form |-> "cell",  c1 |-> c,  r1 |-> r,  c2 |-> c,  r2 |-> r]
Abs(c1, r1, c2, r2)   == [form |-> "abs",   c1 |-> c1, r1 |-> r1, c2 |-> c2, r2 |-> r2]

\* f"A{header_row}:{_col_letter(last_col_n)}{last_row}" (lines 716, 724)
ExtentRef(hdr, last_col_n, lrow) == Range(<<"A">>, hdr, _col_letter(last_col_n), lrow)

\* lines 646-657.  split(":", 1) raises for a ref without a colon, and
\* re.match(r"([A-Z]+)(\d+)") finds nothing at a "$": both fall back to
\* the new extents.
_union_dimension(orig_dim_ref, ucols, lrow) ==
    LET parsed        == orig_dim_ref.form = "range"
        orig_last_col == IF parsed THEN _col_number(orig_dim_ref.c2) ELSE ucols
        orig_last_row == IF parsed THEN orig_dim_ref.r2 ELSE lrow
        u_last_col    == Max(orig_last_col, ucols)
        u_last_row    == Max(orig_last_row, lrow)
    IN  Range(<<"A">>, 1, _col_letter(u_last_col), u_last_row)

\* lines 662-667.  The pattern ^[A-Z]+(\d+):[A-Z]+(\d+)$ accepts only the
\* two-corner form without "$".
_intersects_range(a1, r1, r2) ==
    IF a1.form # "range" THEN FALSE
    ELSE LET lo == IF a1.r1 > a1.r2 THEN a1.r2 ELSE a1.r1
             hi == IF a1.r1 > a1.r2 THEN a1.r1 ELSE a1.r2
         IN  ~(hi < r1 \/ lo > r2)

EXCEL_MAX_ROW == 1048576   \* line 684

(***************************************************************************)
(* Worksheet documents.                                                    *)
(*   rows        the children of sheetData, in document order; r = 0 is a  *)
(*               row whose "r" attribute is absent or not a number         *)
(*   mergeCells  <<>> or <<the sequence of mergeCell refs>>                *)
(*   dimension   <<>> or <<ref>>;  autoFilter  <<>> or <<ref>>             *)
(*   filterMode  sheetPr/@filterMode is set                                *)
(*   Ignorable   the mc:Ignorable attribute of the root                    *)
(*   prefix      the prefix the serialisation gives the main namespace     *)
(***************************************************************************)
OrigCell(c, r) == [col |-> c, row |-> r, t |-> "s", text |-> <<"a">>]

OrigRow(r) == [r |-> r, spans |-> <<1, 6>>, dyDescent |-> "",
               cells |-> <<OrigCell(<<"A">>, r), OrigCell(<<"F">>, r)>>]

OrigRows(n) == [k \in 1..n |-> OrigRow(k)]

Worksheet(rows, merges, dim, af) ==
    [ok |-> TRUE, rows |-> rows, mergeCells |-> merges, dimension |-> dim,
     autoFilter |-> af, filterMode |-> (af # <<>>), Ignorable |-> "", prefix |-> ""]

\* a worksheet part that is not well-formed XML
MalformedSheet == [Worksheet(OrigRows(2), <<>>, <<>>, <<>>) EXCEPT !.ok = FALSE]

\* ET.tostring: the main namespace is written with the default prefix only
\* while the registry still maps it to "" (lines 39, 736)
tostring(root) ==
    [root EXCEPT !.prefix = IF namespace_map = XL_NS_MAIN THEN "" ELSE "ns0"]

\* a plausible slip: the header row just above the data goes too
RemovesRowFromAbove(r, s) == r >= s - 1

\* a plausible slip: the row at the data-start row stays
RemovesRowBelowStart(r, s) == r > s

\* lines 677-679: the row is removed from sheetData
RemovesRow(r, s) == r >= s

\* line 684
RemovesMerge(ref, s) == _intersects_range(ref, s, EXCEL_MAX_ROW)

\* lines 702-706: an inline-string cell with a space-preserving text node
InlineCell(c, r, txt) == [col |-> c, row |-> r, t |-> "inlineStr", text |-> txt]

\* a plausible slip: the zero-based index is taken as the column number
ColumnNumberZeroBased(j) == j

\* line 701: the column number of the value at index j of a block row
ColumnNumber(j) == j + 1

\* lines 696-707: the cells of one new row, columns j..used_cols_final-1
RECURSIVE RowCells(_, _, _, _)
RowCells(src_row, r, j, used_cols_final) ==
    IF j >= used_cols_final THEN <<>>
    ELSE LET val == IF j < Len(src_row) THEN src_row[j + 1] ELSE <<>>
             txt == CellText(val)
         IN  (IF txt = <<>> THEN <<>> ELSE <<InlineCell(_col_letter(ColumnNumber(j)), r, txt)>>)
             \o RowCells(src_row, r, j + 1, used_cols_final)

\* lines 688-695, 708: one new row element
NewRow(src_row, r, used_cols_final) ==
    [r |-> r,
     spans |-> IF used_cols_final > 0 THEN <<1, used_cols_final>> ELSE <<1, 1>>,
     dyDescent |-> "0.25",
     cells |-> RowCells(src_row, r, 0, used_cols_final)]

\* a plausible slip: the last row is not held at the header row
LastRowNoFloor(hdr, srow, n_rows) == srow + Max(0, n_rows) - 1

\* lines 712 and 755
LastRow(hdr, srow, n_rows) == Max(hdr, srow + Max(0, n_rows) - 1)

\* a plausible slip: the collection stays when its last range has gone
MergeCollectionKept(left) == <<left>>

\* lines 686-687: the mergeCells element after the removals, <<>> when it
\* is taken out of the root
MergeCollection(left) == IF Len(left) = 0 THEN <<>> ELSE <<left>>

\* lines 670-720, for a part that parses
_patch_sheet_xml(sheet_xml, hdr, srow, used_cols_final, block) ==
    LET kept    == SelectSeq(sheet_xml.rows, LAMBDA row : ~RemovesRow(row.r, srow))
        merges  == IF sheet_xml.mergeCells = <<>> THEN <<>>
                   ELSE LET left == SelectSeq(sheet_xml.mergeCells[1],
                                              LAMBDA mc : ~RemovesMerge(mc, srow))
                        IN  MergeCollection(left)
        n_rows  == Len(block)
        added   == [i \in 1..n_rows |->
                       NewRow(block[i], srow + (i - 1), used_cols_final)]
        dim     == IF sheet_xml.dimension = <<>> THEN Range(<<"A">>, 1, <<"A">>, 1)
                   ELSE sheet_xml.dimension[1]
        lrow    == LastRow(hdr, srow, n_rows)
    IN  tostring([sheet_xml EXCEPT
            !.Ignorable  = "x14ac",
            !.rows       = kept \o added,
            !.mergeCells = merges,
            !.dimension  = <<_union_dimension(dim, used_cols_final, lrow)>>,
            !.autoFilter = IF sheet_xml.autoFilter = <<>> THEN <<>>
                           ELSE <<ExtentRef(hdr, used_cols_final, lrow)>>,
            !.filterMode = FALSE])

(***************************************************************************)
(* Packages.  A part name is the sequence of the segments of its path      *)
(* ("xl/worksheets/sheet1.xml" is <<"xl", "worksheets", "sheet1.xml">>; a  *)
(* leading "/" gives an empty first segment).  A package is a sequence of  *)
(* [name, body] with distinct names, in the order of the ZIP directory.    *)
(***************************************************************************)
CONTENT_TYPES == <<"[Content_Types].xml">>
WORKBOOK      == <<"xl", "workbook.xml">>
WORKBOOK_RELS == <<"xl", "_rels", "workbook.xml.rels">>
SHEET1        == <<"xl", "worksheets", "sheet1.xml">>
SHEET2        == <<"xl", "worksheets", "sheet2.xml">>
SHEET1_RELS   == <<"xl", "worksheets", "_rels", "sheet1.xml.rels">>
TABLE1        == <<"xl", "tables", "table1.xml">>
TABLE2        == <<"xl", "tables", "table2.xml">>
STYLES        == <<"xl", "styles.xml">>
CALCCHAIN     == <<"xl", "calcChain.xml">>
CALCCHAIN_UC  == <<"xl", "CALCCHAIN.XML">>
VBA           == <<"xl", "vbaProject.bin">>

\* str.lower on the segments and part names the model uses
lower(x) ==
    CASE x = "calcChain.xml"       -> "calcchain.xml"
      [] x = "CALCCHAIN.XML"       -> "calcchain.xml"
      [] x = "[Content_Types].xml" -> "[content_types].xml"
      [] x = "/xl/calcChain.xml"   -> "/xl/calcchain.xml"
      [] x = "/xl/CALCCHAIN.XML"   -> "/xl/calcchain.xml"
      [] OTHER                     -> x

LowerName(fn) == [k \in 1..Len(fn) |-> lower(fn[k])]

\* the segments s for which ".xml" in s
XmlSegments == {"workbook.xml", "sheet1.xml", "sheet2.xml", "table1.xml",
                "table2.xml", "styles.xml", "calcChain.xml", "[Content_Types].xml"}

HasPart(pkg, fn)  == \E k \in 1..Len(pkg) : pkg[k].name = fn
\* zin.read(fn), for a name the package holds
ReadPart(pkg, fn) == pkg[CHOOSE k \in 1..Len(pkg) : pkg[k].name = fn].body

\* ET.fromstring accepts the part
Parses(body) == body.ok

\* a plausible slip: a part that does not parse is taken as it is
ParsesAnything(body) == TRUE

\* line 671: ET.fromstring(sheet_xml_bytes) returns
SheetParses(body) == Parses(body)

\* line 723: ET.fromstring(table_xml_bytes) returns
TableParses(body) == Parses(body)

\* lines 617-619 and 628-630
NormalizeTarget(target) ==
    LET t1 == IF Len(target) > 1 /\ Head(target) = ".." THEN Tail(target) ELSE target
    IN  IF Len(t1) > 1 /\ Head(t1) = "xl" THEN t1 ELSE <<"xl">> \o t1

\* the index of the first TRUE of a sequence of truth values, or 0: where a
\* "for ...: if ...: break" loop stops
FirstIndex(hits) ==
    IF \E k \in 1..Len(hits) : hits[k]
    THEN CHOOSE k \in 1..Len(hits) : hits[k] /\ \A m \in 1..(k - 1) : ~hits[m]
    ELSE 0

\* a plausible slip: a name that is not found falls back to the first sheet
SheetRidOrFirst(sheets, name) ==
    LET k == FirstIndex([i \in 1..Len(sheets) |-> sheets[i].name = name])
    IN  IF k = 0 THEN sheets[1].rid ELSE sheets[k].rid

\* lines 607-610: the r:id of the first sheet entry with that name, "" if none
SheetRid(sheets, name) ==
    LET k == FirstIndex([i \in 1..Len(sheets) |-> sheets[i].name = name])
    IN  IF k = 0 THEN "" ELSE sheets[k].rid

\* lines 612-615: the Target of the first relationship with that Id, <<>> if none
RelTarget(rels, rid) ==
    LET k == FirstIndex([i \in 1..Len(rels) |-> rels[i].Id = rid])
    IN  IF k = 0 THEN <<>> ELSE rels[k].Target

\* lines 604-620: [found, path]; found = FALSE is the ValueError
_find_sheet_part_path(z, name) ==
    LET rid    == SheetRid(ReadPart(z, WORKBOOK).sheets, name)
        target == IF rid = "" THEN <<>> ELSE RelTarget(ReadPart(z, WORKBOOK_RELS).rels, rid)
    IN  IF rid = "" \/ target = <<>>
        THEN [found |-> FALSE, path |-> <<>>]
        ELSE [found |-> TRUE, path |-> NormalizeTarget(target)]

\* line 623
RelsPathOf(path) ==
    LET Seg(k) == IF path[k] \in XmlSegments THEN <<path[k] \o ".rels">>
                  ELSE IF path[k] = "worksheets" /\ k < Len(path)
                       THEN <<"worksheets", "_rels">>
                  ELSE <<path[k]>>
        Join[k \in 0..Len(path)] == IF k = 0 THEN <<>> ELSE Join[k - 1] \o Seg(k)
    IN  Join[Len(path)]

\* a plausible slip: the Type is searched for "table" anywhere in its last
\* segment
IsTableLikeType(type) == type \in {"table", "tableSingleCells"}

\* line 626: Type ends with "/table" (Type holds the last segment of the URI)
IsTableType(type) == type = "table"

RECURSIVE TableTargets(_)
TableTargets(rels) ==
    IF rels = <<>> THEN <<>>
    ELSE (IF IsTableType(Head(rels).Type) THEN <<NormalizeTarget(Head(rels).Target)>> ELSE <<>>)
         \o TableTargets(Tail(rels))

\* lines 622-632, for a relationships part that is absent or parses
_get_table_paths_for_sheet(z, path) ==
    IF ~HasPart(z, RelsPathOf(path)) THEN <<>>
    ELSE TableTargets(ReadPart(z, RelsPathOf(path)).rels)

(***************************************************************************)
(* Table definitions.                                                      *)
(*   autoFilter    the autoFilter children of the root, in order, each     *)
(*                 [ref, children]                                         *)
(*   tableColumns  <<>> or <<[count, children]>>: the count attribute (0   *)
(*                 when absent) and the number of tableColumn children     *)
(***************************************************************************)
Table(ref, afs, tcols) ==
    [ok |-> TRUE, ref |-> ref, autoFilter |-> afs, tableColumns |-> tcols, prefix |-> ""]

\* a plausible slip: the count attribute is not looked at
ReadTableColsChildrenOnly(table_xml) ==
    IF ~Parses(table_xml) THEN 0
    ELSE IF table_xml.tableColumns = <<>> THEN 0
    ELSE table_xml.tableColumns[1].children

\* lines 634-644
_read_table_cols_count(table_xml) ==
    IF ~Parses(table_xml) THEN 0
    ELSE IF table_xml.tableColumns = <<>> THEN 0
    ELSE Max(table_xml.tableColumns[1].count, table_xml.tableColumns[1].children)

\* the truth value of an Element is that of the list of its children
ElementTruth(el) == el.children > 0

\* line 730
DeclaredCount(tcols) == tcols.children

\* lines 722-731, for a part that parses.  root.find(...) or SubElement(...)
\* appends a second autoFilter when the one found has no child.
_patch_table_xml(table_xml, hdr, lrow, last_col_n) ==
    LET new_ref == ExtentRef(hdr, last_col_n, lrow)
        afs     == table_xml.autoFilter
        afs2    == IF afs # <<>> /\ ElementTruth(afs[1])
                   THEN [afs EXCEPT ![1].ref = new_ref]
                   ELSE afs \o <<[ref |-> new_ref, children |-> 0]>>
        tcols   == table_xml.tableColumns
    IN  tostring([table_xml EXCEPT
            !.ref          = new_ref,
            !.autoFilter   = afs2,
            !.tableColumns = IF tcols = <<>> THEN <<>>
                             ELSE <<[tcols[1] EXCEPT
                                       !.count = DeclaredCount(tcols[1])]>>])

(***************************************************************************)
(* Content types.  overrides: the PartName of each Override, in order.     *)
(***************************************************************************)
\* a plausible slip: the PartName of the Override is not looked at
IsAnyOverride(part_name) == TRUE

\* a plausible slip: the PartName is compared as it is spelt
IsCalcChainOverrideExact(part_name) == part_name = "/xl/calcChain.xml"

\* line 738
IsCalcChainOverride(part_name) == lower(part_name) = "/xl/calcchain.xml"

\* a plausible slip: the part is rewritten whether it parsed or not
StripCalcChainUnguarded(ct) ==
    [ct EXCEPT
        !.overrides = SelectSeq(ct.overrides, LAMBDA pn : ~IsCalcChainOverride(pn)),
        !.prefix    = ""]

\* lines 733-742: the bytes returned
_strip_calcchain_override(ct) ==
    IF ~Parses(ct) THEN ct
    ELSE [ct EXCEPT
            !.overrides = SelectSeq(ct.overrides, LAMBDA pn : ~IsCalcChainOverride(pn)),
            !.prefix    = ""]

(***************************************************************************)
(* The variables of the operations that are not running.                   *)
(***************************************************************************)
PkgIdle ==
    /\ master = <<>> /\ sheet_name = "" /\ header_row = 0 /\ start_row = 0
    /\ used_cols = 0 /\ block_2d = <<>> /\ pc = "idle" /\ sheet_path = <<>>
    /\ table_paths = <<>> /\ max_cols = 0 /\ new_sheet_xml = <<>> /\ last_row = 0
    /\ patched_tables = <<>> /\ tp_i = 0 /\ item_i = 0 /\ zout = <<>> /\ result = <<>>
    /\ namespace_map = XL_NS_MAIN

WsIdle  == ws_in = <<>> /\ ws_args = <<>> /\ ws_out = <<>> /\ ws_pc = "idle"

TxtIdle == txt_val = <<>> /\ txt_out = <<>> /\ txt_pc = "idle"

ConcIdle == sessions = <<>>

ColIdle == col_n = 0 /\ col_letters = <<>> /\ col_back = 0 /\ col_pc = "idle"

(***************************************************************************)
(* Specification SpecText: the cell text conversion on every text of at    *)
(* most MaxTextLen characters.                                             *)
(***************************************************************************)
Texts(n) == UNION {[1..k -> Alphabet] : k \in 0..n}

InitText ==
    /\ txt_val \in Texts(MaxTextLen)
    /\ txt_out = <<>>
    /\ txt_pc = "call"
    /\ PkgIdle /\ WsIdle /\ ConcIdle /\ ColIdle

WriteCellText ==
    /\ txt_pc = "call"
    /\ txt_out' = CellText(txt_val)
    /\ txt_pc' = "returned"
    /\ UNCHANGED <<txt_val, pkgVars, wsVars, concVars, colVars>>

NextText == WriteCellText

SpecText == InitText /\ [][NextText]_vars

(***************************************************************************)
(* Specification SpecSheet: _patch_sheet_xml on its own.                   *)
(***************************************************************************)
\* the rows of the template: rows 1..n, or rows 1..2 followed by a row
\* written without an "r" attribute
SheetRowSets ==
    {OrigRows(n) : n \in 0..MaxOrigRow}
    \cup {OrigRows(2) \o <<[OrigRow(0) EXCEPT !.cells = <<>>]>>}

\* the mergeCells element: absent, empty, or holding some of
\*   A1:B1   $A$1:$B$1   A2:B3   B4:A3 (corners swapped)   A5   $A$5:$B$6
MergeSets ==
    { <<>>,
      << <<>> >>,
      << <<Range(<<"A">>, 1, <<"B">>, 1), Abs(<<"A">>, 1, <<"B">>, 1)>> >>,
      << <<Range(<<"A">>, 2, <<"B">>, 3)>> >>,
      << <<Range(<<"A">>, 1, <<"B">>, 1), Range(<<"B">>, 4, <<"A">>, 3)>> >>,
      << <<Range(<<"A">>, 1, <<"B">>, 1), Cell1(<<"A">>, 5)>> >>,
      << <<Abs(<<"A">>, 5, <<"B">>, 6)>> >> }

\* the dimension element: absent, A1:F2, B2:F6, F2, $A$1:$F$2
DimensionSets ==
    { <<>>,
      <<Range(<<"A">>, 1, <<"F">>, 2)>>,
      <<Range(<<"B">>, 2, <<"F">>, 6)>>,
      <<Cell1(<<"F">>, 2)>>,
      <<Abs(<<"A">>, 1, <<"F">>, 2)>> }

AutoFilterSets == { <<>>, <<Range(<<"A">>, 1, <<"F">>, 2)>> }

\* the rows a Data Block is made of: a short row, a row with a blank and
\* with a control character next to white space, a row longer than the
\* column count
BlockRowSet ==
    { << <<"a">> >>,
      << <<" ">>, <<"x01", " ", "a">> >>,
      << <<" ", "a", "x1F">>, <<>>, <<"a", "uD800">>, <<"a">> >> }

Blocks(n) == UNION {[1..k -> BlockRowSet] : k \in 0..n}

HeaderRows == {MASTER_DISPLAY_ROW, MASTER_DISPLAY_ROW + 1}
StartRows  == {MASTER_DATA_START_ROW - 1, MASTER_DATA_START_ROW}

\* the worked scenario of the specification: rows 1 and 2 are the header
\* rows, the dimension is A1:F2, the final column count is 4 and the block
\* is [["A1", "B1"], ["", "D2"]]
ScenarioSheet ==
    Worksheet(OrigRows(MASTER_SECONDARY_ROW), <<>>,
              <<Range(<<"A">>, MASTER_DISPLAY_ROW, <<"F">>, MASTER_SECONDARY_ROW)>>, <<>>)

ScenarioArgs ==
    [header_row |-> MASTER_DISPLAY_ROW, start_row |-> MASTER_DATA_START_ROW,
     used_cols_final |-> 4,
     block_2d |-> << << <<"A", "1">>, <<"B", "1">> >>, << <<>>, <<"D", "2">> >> >>]

InitSheet ==
    /\ \/ /\ ws_in = ScenarioSheet
          /\ ws_args = ScenarioArgs
       \/ /\ ws_in \in {Worksheet(rows, merges, dim, af) :
                            rows \in SheetRowSets, merges \in MergeSets,
                            dim \in DimensionSets, af \in AutoFilterSets}
          /\ ws_args \in [header_row : HeaderRows, start_row : StartRows,
                          used_cols_final : 1..MaxCols,
                          block_2d : Blocks(MaxBlockRows)]
       \/ /\ ws_in = MalformedSheet
          /\ ws_args \in [header_row : HeaderRows, start_row : StartRows,
                          used_cols_final : 1..MaxCols, block_2d : Blocks(1)]
    /\ ws_out = <<>>
    /\ ws_pc = "call"
    /\ PkgIdle /\ TxtIdle /\ ConcIdle /\ ColIdle

\* _patch_sheet_xml returns the patched part
PatchSheet ==
    /\ ws_pc = "call"
    /\ ws_in.ok
    /\ ws_out' = <<_patch_sheet_xml(ws_in, ws_args.header_row, ws_args.start_row,
                                    ws_args.used_cols_final, ws_args.block_2d)>>
    /\ ws_pc' = "returned"
    /\ UNCHANGED <<ws_in, ws_args, pkgVars, txtVars, concVars, colVars>>

\* line 671: ET.fromstring raises ParseError, nothing is returned
PatchSheetParseError ==
    /\ ws_pc = "call"
    /\ ~ws_in.ok
    /\ ws_pc' = "raised"
    /\ UNCHANGED <<ws_in, ws_args, ws_out, pkgVars, txtVars, concVars, colVars>>

NextSheet == PatchSheet \/ PatchSheetParseError

SpecSheet == InitSheet /\ [][NextSheet]_vars

(***************************************************************************)
(* Properties of _patch_sheet_xml (specification SpecSheet).               *)
(***************************************************************************)
SheetReturned == ws_pc = "returned"
WsOut   == ws_out[1]
WsH     == ws_args.header_row
WsS     == ws_args.start_row
WsC     == ws_args.used_cols_final
WsB     == ws_args.block_2d
WsR     == Len(ws_args.block_2d)

\* B[i][j] (i from 1, j from 0), the empty text when the row is too short
BlockValue(block, i, j) ==
    IF j < Len(block[i]) THEN block[i][j + 1] ELSE <<>>

\* the cells of a worksheet at one address, as positions <<row, cell>>
CellsAt(doc, c, r) ==
    {pos \in {<<k, m>> : k \in 1..Len(doc.rows), m \in 1..4} :
        /\ pos[2] <= Len(doc.rows[pos[1]].cells)
        /\ doc.rows[pos[1]].cells[pos[2]].col = c
        /\ doc.rows[pos[1]].cells[pos[2]].row = r}

RowsBelow(doc, s) == SelectSeq(doc.rows, LAMBDA row : row.r < s)

\* C2: the rows of sheetData whose index is below the data-start row are the
\* same rows, with the same cells and attributes, in the same order, before
\* and after patching.
C2_HeaderRowsUnchanged ==
    SheetReturned => RowsBelow(WsOut, WsS) = RowsBelow(ws_in, WsS)

\* C2 witness: a template with rows on both sides of the data-start row is
\* patched with a non-empty Data Block.
C2_Witness ==
    /\ SheetReturned
    /\ WsR > 0
    /\ \E k \in 1..Len(ws_in.rows) : ws_in.rows[k].r = WsS - 1
    /\ \E k \in 1..Len(ws_in.rows) : ws_in.rows[k].r >= WsS

C4_Sparsity ==
    SheetReturned =>
        /\ \A i \in 1..WsR : \A j \in 0..(WsC - 1) :
              strip(BlockValue(WsB, i, j)) = <<>> =>
                  CellsAt(WsOut, _col_letter(j + 1), WsS + i - 1) = {}
        /\ \A k \in 1..Len(WsOut.rows) :
              WsOut.rows[k].r >= WsS =>
                  \A m \in 1..Len(WsOut.rows[k].cells) :
                      LET cell == WsOut.rows[k].cells[m]
                      IN  /\ cell.row = WsOut.rows[k].r
                          /\ cell.row - WsS + 1 \in 1..WsR
                          /\ strip(BlockValue(WsB, cell.row - WsS + 1,
                                              _col_number(cell.col) - 1)) # <<>>

\* C4 witness: a blank value and an absent value are patched over template
\* rows that held a cell at those addresses.
C4_Witness ==
    /\ SheetReturned
    /\ \E i \in 1..WsR :
          /\ WsB[i][1] = <<" ">>
          /\ CellsAt(ws_in, <<"A">>, WsS + i - 1) # {}
    /\ \E i \in 1..WsR : Len(WsB[i]) < WsC

\* the last column and last row a range attribute names
RefLastCol(ref) == IF ref.form = "cell" THEN _col_number(ref.c1) ELSE _col_number(ref.c2)
RefLastRow(ref) == IF ref.form = "cell" THEN ref.r1 ELSE ref.r2

\* C5 as stated: for a two-corner or a single-cell original dimension, the
\* output dimension's last column is >= the original's and >= C, and its
\* last row is >= the original's and >= max(H, S+R-1).
C5_DimensionNeverShrinks ==
    (SheetReturned /\ ws_in.dimension # <<>>
        /\ ws_in.dimension[1].form \in {"range", "cell"}) =>
        LET old == ws_in.dimension[1]
            new == WsOut.dimension[1]
        IN  /\ RefLastCol(new) >= RefLastCol(old)
            /\ RefLastCol(new) >= WsC
            /\ RefLastRow(new) >= RefLastRow(old)
            /\ RefLastRow(new) >= Max(WsH, WsS + WsR - 1)

\* C6 as stated: no merge range left in the worksheet reaches the data-start
\* row or below, whatever the form of its ref.
C6_NoMergeInDataRows ==
    SheetReturned =>
        \A c \in 1..Len(WsOut.mergeCells) : \A k \in 1..Len(WsOut.mergeCells[c]) :
            LET mc == WsOut.mergeCells[c][k]
            IN  Max(mc.r1, mc.r2) < WsS

(***************************************************************************)
(* Specification Spec: fast_patch_template (lines 744-769), one action per *)
(* step, called as line 1007 calls it.                                     *)
(***************************************************************************)
Part(fn, body) == [name |-> fn, body |-> body]
Opaque(bytes)  == [bytes |-> bytes]

SheetEntry(name, rid) == [name |-> name, rid |-> rid]
Rel(id, type, target) == [Id |-> id, Type |-> type, Target |-> target]

\* xl/workbook.xml: the sheet is the second entry, is absent, or is spelt in
\* another case
WorkbookSet ==
    { <<SheetEntry("Other", "rId2"), SheetEntry(MASTER_TEMPLATE_SHEET, "rId1")>>,
      <<SheetEntry("Other", "rId2")>>,
      <<SheetEntry("bulk product data", "rId1"), SheetEntry("Other", "rId2")>> }

\* xl/_rels/workbook.xml.rels: rId1 is relative to xl/, is missing, or is
\* written with a leading "/"
WorkbookRelsSet ==
    { <<Rel("rId2", "worksheet", <<"worksheets", "sheet2.xml">>),
        Rel("rId1", "worksheet", <<"worksheets", "sheet1.xml">>)>>,
      <<Rel("rId2", "worksheet", <<"worksheets", "sheet2.xml">>)>>,
      <<Rel("rId1", "worksheet", <<"", "xl", "worksheets", "sheet1.xml">>),
        Rel("rId2", "worksheet", <<"worksheets", "sheet2.xml">>)>> }

TemplateSheet ==
    Worksheet(OrigRows(MaxOrigRow),
              << <<Range(<<"A">>, 1, <<"B">>, 1), Range(<<"A">>, 2, <<"B">>, 3)>> >>,
              <<Range(<<"A">>, 1, <<"F">>, 2)>>,
              <<Range(<<"A">>, 1, <<"F">>, 2)>>)

SheetSet == {TemplateSheet, MalformedSheet}

\* xl/worksheets/_rels/sheet1.xml.rels: absent, malformed, or one of three
\* relationship lists (the last names a table part the package lacks)
SheetRelsSet ==
    { <<>>,
      <<[ok |-> FALSE, rels |-> <<>>]>>,
      <<[ok |-> TRUE, rels |-> <<Rel("rId1", "table", <<"..", "tables", "table1.xml">>)>>]>>,
      <<[ok |-> TRUE, rels |->
            <<Rel("rId1", "drawing", <<"..", "drawings", "drawing1.xml">>),
              Rel("rId2", "table", <<"..", "tables", "table1.xml">>),
              Rel("rId3", "table", <<"..", "tables", "table2.xml">>)>>]>>,
      <<[ok |-> TRUE, rels |->
            <<Rel("rId1", "table", <<"..", "tables", "table3.xml">>),
              Rel("rId2", "table", <<"..", "tables", "table1.xml">>)>>]>> }

TableRef0 == Range(<<"A">>, 1, <<"F">>, 2)

\* xl/tables/table1.xml
Table1Set ==
    { Table(TableRef0, <<[ref |-> TableRef0, children |-> 0]>>,
            <<[count |-> 2, children |-> 2]>>),
      Table(TableRef0, <<[ref |-> TableRef0, children |-> 1]>>,
            <<[count |-> 3, children |-> 2]>>),
      Table(TableRef0, <<>>, <<>>),
      Table(TableRef0, <<[ref |-> TableRef0, children |-> 0]>>,
            <<[count |-> 1, children |-> 3]>>),
      [Table(TableRef0, <<>>, <<>>) EXCEPT !.ok = FALSE] }

\* xl/tables/table2.xml
Table2Set ==
    { Table(TableRef0, <<[ref |-> TableRef0, children |-> 1]>>,
            <<[count |-> 1, children |-> 1]>>),
      [Table(TableRef0, <<>>, <<>>) EXCEPT !.ok = FALSE] }

\* the calculation-cache part and its Override: neither, both, both in
\* upper case, or the Override alone
CalcSet ==
    { [part |-> <<>>, overrides |-> <<"/xl/workbook.xml">>],
      [part |-> <<Part(CALCCHAIN, Opaque("calc"))>>,
       overrides |-> <<"/xl/workbook.xml", "/xl/calcChain.xml">>],
      [part |-> <<Part(CALCCHAIN_UC, Opaque("calc"))>>,
       overrides |-> <<"/xl/CALCCHAIN.XML", "/xl/workbook.xml">>],
      [part |-> <<>>, overrides |-> <<"/xl/workbook.xml", "/xl/calcChain.xml">>] }

Package(ct_ok, calc, sheets, wbrels, sheet, sheetrels, t1, t2) ==
    << Part(CONTENT_TYPES, [ok |-> ct_ok, overrides |-> calc.overrides, prefix |-> ""]),
       Part(WORKBOOK, [ok |-> TRUE, sheets |-> sheets]),
       Part(WORKBOOK_RELS, [ok |-> TRUE, rels |-> wbrels]),
       Part(SHEET1, sheet),
       Part(SHEET2, Worksheet(OrigRows(MaxOrigRow), <<>>, <<>>, <<>>)) >>
    \o [k \in 1..Len(sheetrels) |-> Part(SHEET1_RELS, sheetrels[k])]
    \o << Part(TABLE1, t1), Part(TABLE2, t2), Part(STYLES, Opaque("styles")) >>
    \o calc.part
    \o << Part(VBA, Opaque("vba")) >>

\* the Data Blocks of the package specification: R rows of one kind
PkgBlocks(n) == {[i \in 1..k |-> << <<" ", "a">>, <<>> >>] : k \in 0..n}

Init ==
    /\ master \in {Package(ct_ok, calc, sheets, wbrels, sheet, sheetrels, t1, t2) :
                      ct_ok \in BOOLEAN, calc \in CalcSet, sheets \in WorkbookSet,
                      wbrels \in WorkbookRelsSet, sheet \in SheetSet,
                      sheetrels \in SheetRelsSet, t1 \in Table1Set, t2 \in Table2Set}
    /\ sheet_name = MASTER_TEMPLATE_SHEET
    /\ header_row = MASTER_DISPLAY_ROW
    /\ start_row = MASTER_DATA_START_ROW
    /\ used_cols \in 1..MaxCols
    /\ block_2d \in PkgBlocks(MaxBlockRows)
    /\ pc = "start"
    /\ sheet_path = <<>> /\ table_paths = <<>> /\ max_cols = 0
    /\ new_sheet_xml = <<>> /\ last_row = 0 /\ patched_tables = <<>>
    /\ tp_i = 0 /\ item_i = 0 /\ zout = <<>> /\ result = <<>>
    /\ namespace_map = XL_NS_MAIN
    /\ WsIdle /\ TxtIdle /\ ConcIdle /\ ColIdle

inputVars == <<master, sheet_name, header_row, start_row, used_cols, block_2d>>

\* line 746, the path is found
FindSheet ==
    /\ pc = "start"
    /\ _find_sheet_part_path(master, sheet_name).found
    /\ sheet_path' = _find_sheet_part_path(master, sheet_name).path
    /\ pc' = "find_tables"
    /\ UNCHANGED <<inputVars, table_paths, max_cols, new_sheet_xml, last_row,
                   patched_tables, tp_i, item_i, zout, result, namespace_map,
                   wsVars, txtVars, concVars, colVars>>

\* line 746, ValueError (lines 611, 616)
FindSheetNotFound ==
    /\ pc = "start"
    /\ ~_find_sheet_part_path(master, sheet_name).found
    /\ pc' = "error"
    /\ UNCHANGED <<inputVars, sheet_path, table_paths, max_cols, new_sheet_xml,
                   last_row, patched_tables, tp_i, item_i, zout, result,
                   namespace_map, wsVars, txtVars, concVars, colVars>>

\* the sheet's relationships part is in the package and does not parse
SheetRelsBroken ==
    /\ HasPart(master, RelsPathOf(sheet_path))
    /\ ~Parses(ReadPart(master, RelsPathOf(sheet_path)))

\* lines 747-748
GetTablePaths ==
    /\ pc = "find_tables"
    /\ ~SheetRelsBroken
    /\ table_paths' = _get_table_paths_for_sheet(master, sheet_path)
    /\ max_cols' = used_cols
    /\ tp_i' = 1
    /\ pc' = "read_cols"
    /\ UNCHANGED <<inputVars, sheet_path, new_sheet_xml, last_row, patched_tables,
                   item_i, zout, result, namespace_map, wsVars, txtVars, concVars, colVars>>

\* line 747, ParseError out of line 625
GetTablePathsParseError ==
    /\ pc = "find_tables"
    /\ SheetRelsBroken
    /\ pc' = "error"
    /\ UNCHANGED <<inputVars, sheet_path, table_paths, max_cols, new_sheet_xml,
                   last_row, patched_tables, tp_i, item_i, zout, result,
                   namespace_map, wsVars, txtVars, concVars, colVars>>

\* lines 749-753, one pass of the loop; a part that is missing is passed over
ReadTableCols ==
    /\ pc = "read_cols"
    /\ tp_i <= Len(table_paths)
    /\ LET tp  == table_paths[tp_i]
           cnt == IF HasPart(master, tp)
                  THEN _read_table_cols_count(ReadPart(master, tp)) ELSE 0
       IN  max_cols' = IF cnt > max_cols THEN cnt ELSE max_cols
    /\ tp_i' = tp_i + 1
    /\ UNCHANGED <<inputVars, pc, sheet_path, table_paths, new_sheet_xml, last_row,
                   patched_tables, item_i, zout, result, namespace_map,
                   wsVars, txtVars, concVars, colVars>>

\* the sheet part can be read and parsed
SheetReadable ==
    /\ HasPart(master, sheet_path)
    /\ SheetParses(ReadPart(master, sheet_path))

\* lines 754-756
PatchSheetPart ==
    /\ pc = "read_cols"
    /\ tp_i > Len(table_paths)
    /\ SheetReadable
    /\ new_sheet_xml' = <<_patch_sheet_xml(ReadPart(master, sheet_path), header_row,
                                           start_row, max_cols, block_2d)>>
    /\ last_row' = LastRow(header_row, start_row, Len(block_2d))
    /\ tp_i' = 1
    /\ pc' = "patch_tables"
    /\ UNCHANGED <<inputVars, sheet_path, table_paths, max_cols, patched_tables,
                   item_i, zout, result, namespace_map, wsVars, txtVars, concVars, colVars>>

\* line 754: KeyError of zin.read or ParseError of line 671
PatchSheetPartError ==
    /\ pc = "read_cols"
    /\ tp_i > Len(table_paths)
    /\ ~SheetReadable
    /\ pc' = "error"
    /\ UNCHANGED <<inputVars, sheet_path, table_paths, max_cols, new_sheet_xml,
                   last_row, patched_tables, tp_i, item_i, zout, result,
                   namespace_map, wsVars, txtVars, concVars, colVars>>

IsPatched(tables, fn) == \E k \in 1..Len(tables) : tables[k].name = fn

\* lines 757-759, one pass of the loop; a table that is missing or does not
\* parse is passed over
PatchTable ==
    /\ pc = "patch_tables"
    /\ tp_i <= Len(table_paths)
    /\ LET tp == table_paths[tp_i]
       IN  patched_tables' =
               IF HasPart(master, tp) /\ TableParses(ReadPart(master, tp))
                  /\ ~IsPatched(patched_tables, tp)
               THEN Append(patched_tables,
                           Part(tp, _patch_table_xml(ReadPart(master, tp), header_row,
                                                     last_row, max_cols)))
               ELSE patched_tables
    /\ tp_i' = tp_i + 1
    /\ UNCHANGED <<inputVars, pc, sheet_path, table_paths, max_cols, new_sheet_xml,
                   last_row, item_i, zout, result, namespace_map, wsVars, txtVars, concVars, colVars>>

\* lines 760-762: the output archive is opened
OpenOutput ==
    /\ pc = "patch_tables"
    /\ tp_i > Len(table_paths)
    /\ item_i' = 1
    /\ pc' = "assemble"
    /\ UNCHANGED <<inputVars, sheet_path, table_paths, max_cols, new_sheet_xml,
                   last_row, patched_tables, tp_i, zout, result, namespace_map,
                   wsVars, txtVars, concVars, colVars>>

\* a plausible slip: every worksheet part takes the patched sheet
IsAnyWorksheet(fn) == Len(fn) = 3 /\ fn[2] = "worksheets"

\* line 764
IsSheetPart(fn) == fn = sheet_path

\* line 766
IsContentTypes(fn) == LowerName(fn) = <<"[content_types].xml">>

\* a plausible slip: the name is compared as it is spelt
IsCalcChainExact(fn) == fn = CALCCHAIN

\* line 767
IsCalcChain(fn) == LowerName(fn) = <<"xl", "calcchain.xml">>

PatchedBody(tables, fn) == tables[CHOOSE k \in 1..Len(tables) : tables[k].name = fn].body

Assembling == pc = "assemble" /\ item_i <= Len(master)
Item       == master[item_i]

assembleFrame == <<inputVars, pc, sheet_path, table_paths, max_cols, new_sheet_xml,
                   last_row, patched_tables, tp_i, result, wsVars, txtVars, concVars, colVars>>

\* line 764
WriteSheet ==
    /\ Assembling
    /\ IsSheetPart(Item.name)
    /\ zout' = Append(zout, Part(Item.name, new_sheet_xml[1]))
    /\ item_i' = item_i + 1
    /\ UNCHANGED <<assembleFrame, namespace_map>>

\* line 765
WriteTable ==
    /\ Assembling
    /\ ~IsSheetPart(Item.name)
    /\ IsPatched(patched_tables, Item.name)
    /\ zout' = Append(zout, Part(Item.name, PatchedBody(patched_tables, Item.name)))
    /\ item_i' = item_i + 1
    /\ UNCHANGED <<assembleFrame, namespace_map>>

\* line 766; line 736 registers the content-types namespace for the default
\* prefix once the part has parsed
WriteContentTypes ==
    /\ Assembling
    /\ ~IsSheetPart(Item.name)
    /\ ~IsPatched(patched_tables, Item.name)
    /\ IsContentTypes(Item.name)
    /\ zout' = Append(zout, Part(Item.name, _strip_calcchain_override(Item.body)))
    /\ namespace_map' = IF Parses(Item.body) THEN CT_NS ELSE namespace_map
    /\ item_i' = item_i + 1
    /\ UNCHANGED assembleFrame

\* line 767
SkipCalcChain ==
    /\ Assembling
    /\ ~IsSheetPart(Item.name)
    /\ ~IsPatched(patched_tables, Item.name)
    /\ ~IsContentTypes(Item.name)
    /\ IsCalcChain(Item.name)
    /\ item_i' = item_i + 1
    /\ UNCHANGED <<assembleFrame, zout, namespace_map>>

\* line 768
CopyPart ==
    /\ Assembling
    /\ ~IsSheetPart(Item.name)
    /\ ~IsPatched(patched_tables, Item.name)
    /\ ~IsContentTypes(Item.name)
    /\ ~IsCalcChain(Item.name)
    /\ zout' = Append(zout, Part(Item.name, Item.body))
    /\ item_i' = item_i + 1
    /\ UNCHANGED <<assembleFrame, namespace_map>>

\* line 769
Return ==
    /\ pc = "assemble"
    /\ item_i > Len(master)
    /\ result' = <<zout>>
    /\ pc' = "done"
    /\ UNCHANGED <<inputVars, sheet_path, table_paths, max_cols, new_sheet_xml,
                   last_row, patched_tables, tp_i, item_i, zout, namespace_map,
                   wsVars, txtVars, concVars, colVars>>

\* a serialised part as ET.tostring writes it while the part's namespace holds
\* the default prefix: no prefix on its tags
SansPrefix(body) == [body EXCEPT !.prefix = ""]

\* line 1007 once more in the same process, with the same arguments: the
\* locals are new, the namespace registry of ElementTree is the process's
CallAgain ==
    /\ pc \in {"done", "error"}
    /\ pc' = "start"
    /\ sheet_path' = <<>> /\ table_paths' = <<>> /\ max_cols' = 0
    /\ new_sheet_xml' = <<>> /\ last_row' = 0 /\ patched_tables' = <<>>
    /\ tp_i' = 0 /\ item_i' = 0 /\ zout' = <<>> /\ result' = <<>>
    /\ UNCHANGED <<inputVars, namespace_map, wsVars, txtVars, concVars, colVars>>

\* lines 744-769 in one step, as run first in a fresh process: ET.tostring of
\* the sheet and of the tables finds the main namespace registered for the
\* default prefix (lines 39-42).  Defined when the sheet resolves and parses.
FastPatchFresh(pkg, name, hdr, srow, ucols, block) ==
    LET sp    == _find_sheet_part_path(pkg, name).path
        tps   == _get_table_paths_for_sheet(pkg, sp)
        cnt(tp) == IF HasPart(pkg, tp) THEN _read_table_cols_count(ReadPart(pkg, tp)) ELSE 0
        cands == {ucols} \cup {cnt(tps[k]) : k \in 1..Len(tps)}
        mc    == CHOOSE x \in cands : \A y \in cands : y <= x
        lrow  == LastRow(hdr, srow, Len(block))
        patched(fn) == \E k \in 1..Len(tps) :
                          tps[k] = fn /\ HasPart(pkg, fn) /\ TableParses(ReadPart(pkg, fn))
        body(it) ==
            IF it.name = sp
            THEN SansPrefix(_patch_sheet_xml(it.body, hdr, srow, mc, block))
            ELSE IF patched(it.name)
            THEN SansPrefix(_patch_table_xml(it.body, hdr, lrow, mc))
            ELSE IF IsContentTypes(it.name) THEN _strip_calcchain_override(it.body)
            ELSE it.body
        kept  == SelectSeq(pkg, LAMBDA it : \/ it.name = sp
                                           \/ patched(it.name)
                                           \/ IsContentTypes(it.name)
                                           \/ ~IsCalcChain(it.name))
    IN  [k \in 1..Len(kept) |-> Part(kept[k].name, body(kept[k]))]

Next ==
    \/ FindSheet \/ FindSheetNotFound
    \/ GetTablePaths \/ GetTablePathsParseError
    \/ ReadTableCols
    \/ PatchSheetPart \/ PatchSheetPartError
    \/ PatchTable \/ OpenOutput
    \/ WriteSheet \/ WriteTable \/ WriteContentTypes \/ SkipCalcChain \/ CopyPart
    \/ Return
    \/ CallAgain

Spec == Init /\ [][Next]_vars

(***************************************************************************)
(* Two sessions of the app in one process (specification SpecConc).  Each  *)
(* session's thread runs the script from its top: lines 39-42 register the *)
(* namespaces, line 1007 calls fast_patch_template on the session's own    *)
(* upload.  The threads share ElementTree's registry and switch between    *)
(* statements.                                                             *)
(***************************************************************************)
Sessions == {1, 2}

\* the registry of a process in which no script has run
NO_DEFAULT_NS == "none"

\* the arguments of line 1007, the same in both sessions
ConcArgs == [sheet_name |-> MASTER_TEMPLATE_SHEET, header_row |-> MASTER_DISPLAY_ROW,
             start_row |-> MASTER_DATA_START_ROW, used_cols |-> 1,
             block_2d |-> << << <<"a">> >> >>]

\* the uploads: content types well formed or not, the sheet named or not,
\* the bound table well formed or not
ConcPackages ==
    {Package(ct_ok, [part |-> <<Part(CALCCHAIN, Opaque("calc"))>>,
                     overrides |-> <<"/xl/workbook.xml", "/xl/calcChain.xml">>],
             sheets,
             <<Rel("rId2", "worksheet", <<"worksheets", "sheet2.xml">>),
               Rel("rId1", "worksheet", <<"worksheets", "sheet1.xml">>)>>,
             TemplateSheet,
             <<[ok |-> TRUE, rels |-> <<Rel("rId1", "table", <<"..", "tables", "table1.xml">>)>>]>>,
             t1,
             Table(TableRef0, <<>>, <<>>)) :
        ct_ok \in BOOLEAN,
        sheets \in {<<SheetEntry("Other", "rId2"), SheetEntry(MASTER_TEMPLATE_SHEET, "rId1")>>,
                    <<SheetEntry("Other", "rId2")>>},
        t1 \in {Table(TableRef0, <<[ref |-> TableRef0, children |-> 1]>>,
                      <<[count |-> 1, children |-> 1]>>),
                [Table(TableRef0, <<>>, <<>>) EXCEPT !.ok = FALSE]}}

Session(zin) ==
    [pc |-> "script", zin |-> zin, sheet_path |-> <<>>, table_paths |-> <<>>,
     max_cols |-> 0, new_sheet_xml |-> <<>>, last_row |-> 0, patched |-> <<>>,
     tp_i |-> 0, item_i |-> 0, zout |-> <<>>, result |-> <<>>]

InitConc ==
    /\ sessions \in {[p \in Sessions |-> Session(f[p])] : f \in [Sessions -> ConcPackages]}
    /\ master = <<>> /\ sheet_name = "" /\ header_row = 0 /\ start_row = 0
    /\ used_cols = 0 /\ block_2d = <<>> /\ pc = "idle" /\ sheet_path = <<>>
    /\ table_paths = <<>> /\ max_cols = 0 /\ new_sheet_xml = <<>> /\ last_row = 0
    /\ patched_tables = <<>> /\ tp_i = 0 /\ item_i = 0 /\ zout = <<>> /\ result = <<>>
    /\ namespace_map = NO_DEFAULT_NS
    /\ WsIdle /\ TxtIdle /\ ColIdle

\* everything but the sessions and the registry
concFrame == <<inputVars, pc, sheet_path, table_paths, max_cols, new_sheet_xml,
               last_row, patched_tables, tp_i, item_i, zout, result, wsVars, txtVars,
               colVars>>

\* lines 39-42 at the top of the session's script run
CRunScript(p) ==
    /\ sessions[p].pc = "script"
    /\ namespace_map' = XL_NS_MAIN
    /\ sessions' = [sessions EXCEPT ![p].pc = "call"]
    /\ UNCHANGED concFrame

\* lines 746-753: the sheet and its tables are resolved in the session's own
\* upload, or the call ends in the error of lines 611, 616 or 625
CResolve(p) ==
    /\ sessions[p].pc = "call"
    /\ LET s     == sessions[p]
           found == _find_sheet_part_path(s.zin, ConcArgs.sheet_name)
           rp    == RelsPathOf(found.path)
           tps   == _get_table_paths_for_sheet(s.zin, found.path)
           cnt(tp) == IF HasPart(s.zin, tp)
                      THEN _read_table_cols_count(ReadPart(s.zin, tp)) ELSE 0
           cands == {ConcArgs.used_cols} \cup {cnt(tps[k]) : k \in 1..Len(tps)}
       IN  sessions' =
             IF ~found.found \/ (HasPart(s.zin, rp) /\ ~Parses(ReadPart(s.zin, rp)))
             THEN [sessions EXCEPT ![p].pc = "error"]
             ELSE [sessions EXCEPT
                     ![p].pc = "patch_sheet",
                     ![p].sheet_path = found.path,
                     ![p].table_paths = tps,
                     ![p].max_cols = CHOOSE x \in cands : \A y \in cands : y <= x]
    /\ UNCHANGED <<concFrame, namespace_map>>

\* lines 754-756: ET.tostring of line 720 reads the registry as it is now
CPatchSheet(p) ==
    /\ sessions[p].pc = "patch_sheet"
    /\ LET s == sessions[p]
       IN  sessions' =
             IF HasPart(s.zin, s.sheet_path) /\ SheetParses(ReadPart(s.zin, s.sheet_path))
             THEN [sessions EXCEPT
                     ![p].pc = "patch_tables",
                     ![p].new_sheet_xml =
                         <<_patch_sheet_xml(ReadPart(s.zin, s.sheet_path),
                                            ConcArgs.header_row, ConcArgs.start_row,
                                            s.max_cols, ConcArgs.block_2d)>>,
                     ![p].last_row = LastRow(ConcArgs.header_row, ConcArgs.start_row,
                                             Len(ConcArgs.block_2d)),
                     ![p].tp_i = 1]
             ELSE [sessions EXCEPT ![p].pc = "error"]
    /\ UNCHANGED <<concFrame, namespace_map>>

\* lines 757-759, one pass: ET.tostring of line 731 reads the registry
CPatchTable(p) ==
    /\ sessions[p].pc = "patch_tables"
    /\ sessions[p].tp_i <= Len(sessions[p].table_paths)
    /\ LET s  == sessions[p]
           tp == s.table_paths[s.tp_i]
       IN  sessions' =
             [sessions EXCEPT
                ![p].tp_i = s.tp_i + 1,
                ![p].patched =
                    IF HasPart(s.zin, tp) /\ TableParses(ReadPart(s.zin, tp))
                       /\ ~IsPatched(s.patched, tp)
                    THEN Append(s.patched,
                                Part(tp, _patch_table_xml(ReadPart(s.zin, tp),
                                                          ConcArgs.header_row, s.last_row,
                                                          s.max_cols)))
                    ELSE s.patched]
    /\ UNCHANGED <<concFrame, namespace_map>>

\* lines 760-762
COpenOutput(p) ==
    /\ sessions[p].pc = "patch_tables"
    /\ sessions[p].tp_i > Len(sessions[p].table_paths)
    /\ sessions' = [sessions EXCEPT ![p].pc = "assemble", ![p].item_i = 1]
    /\ UNCHANGED <<concFrame, namespace_map>>

CItem(p) == sessions[p].zin[sessions[p].item_i]

\* the entry at hand goes through line 766
CIsContentTypesItem(p) ==
    /\ sessions[p].pc = "assemble"
    /\ sessions[p].item_i <= Len(sessions[p].zin)
    /\ CItem(p).name # sessions[p].sheet_path
    /\ ~IsPatched(sessions[p].patched, CItem(p).name)
    /\ IsContentTypes(CItem(p).name)

\* lines 764, 765, 767, 768: one entry that is not the content-types part
CWriteItem(p) ==
    /\ sessions[p].pc = "assemble"
    /\ sessions[p].item_i <= Len(sessions[p].zin)
    /\ ~CIsContentTypesItem(p)
    /\ LET s  == sessions[p]
           it == CItem(p)
       IN  sessions' =
             [sessions EXCEPT
                ![p].item_i = s.item_i + 1,
                ![p].zout =
                    IF it.name = s.sheet_path
                    THEN Append(s.zout, Part(it.name, s.new_sheet_xml[1]))
                    ELSE IF IsPatched(s.patched, it.name)
                    THEN Append(s.zout, Part(it.name, PatchedBody(s.patched, it.name)))
                    ELSE IF IsCalcChain(it.name) THEN s.zout
                    ELSE Append(s.zout, Part(it.name, it.body))]
    /\ UNCHANGED <<concFrame, namespace_map>>

\* lines 734-736 for the content-types entry: the part parses and its
\* namespace is registered for the default prefix, or it does not parse and
\* lines 741-742 and 766 write it as it came
CRegisterContentTypes(p) ==
    /\ CIsContentTypesItem(p)
    /\ LET s == sessions[p]
       IN  IF Parses(CItem(p).body)
           THEN /\ namespace_map' = CT_NS
                /\ sessions' = [sessions EXCEPT ![p].pc = "ct_registered"]
           ELSE /\ namespace_map' = namespace_map
                /\ sessions' = [sessions EXCEPT
                                  ![p].item_i = s.item_i + 1,
                                  ![p].zout = Append(s.zout, Part(CItem(p).name, CItem(p).body))]
    /\ UNCHANGED concFrame

\* lines 737-740 and 766: ET.tostring of line 740 reads the registry as it is
\* now
CWriteContentTypes(p) ==
    /\ sessions[p].pc = "ct_registered"
    /\ LET s  == sessions[p]
           ct == [_strip_calcchain_override(CItem(p).body) EXCEPT
                     !.prefix = IF namespace_map = CT_NS THEN "" ELSE "ns0"]
       IN  sessions' = [sessions EXCEPT
                          ![p].pc = "assemble",
                          ![p].item_i = s.item_i + 1,
                          ![p].zout = Append(s.zout, Part(CItem(p).name, ct))]
    /\ UNCHANGED <<concFrame, namespace_map>>

\* line 769
CReturn(p) ==
    /\ sessions[p].pc = "assemble"
    /\ sessions[p].item_i > Len(sessions[p].zin)
    /\ sessions' = [sessions EXCEPT ![p].pc = "done", ![p].result = <<sessions[p].zout>>]
    /\ UNCHANGED <<concFrame, namespace_map>>

NextConc ==
    \E p \in Sessions :
        \/ CRunScript(p)
        \/ CResolve(p)
        \/ CPatchSheet(p)
        \/ CPatchTable(p)
        \/ COpenOutput(p)
        \/ CWriteItem(p)
        \/ CRegisterContentTypes(p)
        \/ CWriteContentTypes(p)
        \/ CReturn(p)

SpecConc == InitConc /\ [][NextConc]_vars

(***************************************************************************)
(* The calculation-cache invalidation on its own (specification SpecCalc): *)
(* the branches of lines 766-768 of the write loop, applied to a package   *)
(* and then to the package that came out.                                  *)
(***************************************************************************)
\* lines 762-763 and 766-768: every entry in order; the content-types part
\* goes through _strip_calcchain_override, the calculation-cache part is
\* skipped, the others are copied
InvalidateCalcChain(pkg) ==
    LET kept == SelectSeq(pkg, LAMBDA it : IsContentTypes(it.name) \/ ~IsCalcChain(it.name))
    IN  [k \in 1..Len(kept) |->
            IF IsContentTypes(kept[k].name)
            THEN Part(kept[k].name, _strip_calcchain_override(kept[k].body))
            ELSE kept[k]]

\* line 736 has run for some content-types part of the package
RegistersContentTypes(pkg) ==
    \E k \in 1..Len(pkg) : IsContentTypes(pkg[k].name) /\ Parses(pkg[k].body)

InitCalc ==
    /\ master \in {Package(ct_ok, calc,
                            <<SheetEntry("Other", "rId2"), SheetEntry(MASTER_TEMPLATE_SHEET, "rId1")>>,
                            <<Rel("rId2", "worksheet", <<"worksheets", "sheet2.xml">>),
                              Rel("rId1", "worksheet", <<"worksheets", "sheet1.xml">>)>>,
                            TemplateSheet, sheetrels, t1, t2) :
                      ct_ok \in BOOLEAN, calc \in CalcSet, sheetrels \in SheetRelsSet,
                      t1 \in Table1Set, t2 \in Table2Set}
    /\ sheet_name = "" /\ header_row = 0 /\ start_row = 0
    /\ used_cols = 0 /\ block_2d = <<>> /\ pc = "calc_call" /\ sheet_path = <<>>
    /\ table_paths = <<>> /\ max_cols = 0 /\ new_sheet_xml = <<>> /\ last_row = 0
    /\ patched_tables = <<>> /\ tp_i = 0 /\ item_i = 0 /\ zout = <<>> /\ result = <<>>
    /\ namespace_map = XL_NS_MAIN
    /\ WsIdle /\ TxtIdle /\ ConcIdle /\ ColIdle

calcFrame == <<inputVars, sheet_path, table_paths, max_cols, new_sheet_xml, last_row,
               patched_tables, tp_i, item_i, wsVars, txtVars, concVars, colVars>>

\* the invalidation is applied to the input package
InvalidateOnce ==
    /\ pc = "calc_call"
    /\ zout' = InvalidateCalcChain(master)
    /\ namespace_map' = IF RegistersContentTypes(master) THEN CT_NS ELSE namespace_map
    /\ pc' = "calc_once"
    /\ UNCHANGED <<calcFrame, result>>

\* the invalidation is applied to the package that came out; result keeps
\* the package of the first application
InvalidateTwice ==
    /\ pc = "calc_once"
    /\ result' = <<zout>>
    /\ zout' = InvalidateCalcChain(zout)
    /\ namespace_map' = IF RegistersContentTypes(zout) THEN CT_NS ELSE namespace_map
    /\ pc' = "calc_twice"
    /\ UNCHANGED calcFrame

NextCalc == InvalidateOnce \/ InvalidateTwice

SpecCalc == InitCalc /\ [][NextCalc]_vars

(***************************************************************************)
(* _find_sheet_part_path on its own (specification SpecFind): workbooks of *)
(* up to MaxSheets sheet entries, relationship tables of up to MaxRels     *)
(* relationships, every form of Target.                                    *)
(***************************************************************************)
\* Target of a worksheet relationship: relative to xl/, with a leading "../",
\* rooted at xl/, with a leading "/", and the other sheet
TargetForms ==
    { <<"worksheets", "sheet1.xml">>,
      <<"..", "worksheets", "sheet1.xml">>,
      <<"xl", "worksheets", "sheet1.xml">>,
      <<"", "xl", "worksheets", "sheet1.xml">>,
      <<"worksheets", "sheet2.xml">> }

FindSheetEntries == {SheetEntry(n, rid) : n \in {MASTER_TEMPLATE_SHEET, "bulk product data", "Other"},
                                         rid \in {"rId1", "rId2"}}

FindRels == {Rel(id, "worksheet", t) : id \in {"rId1", "rId2"}, t \in TargetForms}

FindPackage(sheets, rels) ==
    << Part(WORKBOOK, [ok |-> TRUE, sheets |-> sheets]),
       Part(WORKBOOK_RELS, [ok |-> TRUE, rels |-> rels]),
       Part(SHEET1, Worksheet(OrigRows(1), <<>>, <<>>, <<>>)),
       Part(SHEET2, Worksheet(OrigRows(1), <<>>, <<>>, <<>>)) >>

InitFind ==
    /\ master \in {FindPackage(sheets, rels) :
                      sheets \in UNION {[1..k -> FindSheetEntries] : k \in 1..MaxSheets},
                      rels \in UNION {[1..k -> FindRels] : k \in 0..MaxRels}}
    /\ sheet_name = MASTER_TEMPLATE_SHEET
    /\ header_row = 0 /\ start_row = 0
    /\ used_cols = 0 /\ block_2d = <<>> /\ pc = "find_call" /\ sheet_path = <<>>
    /\ table_paths = <<>> /\ max_cols = 0 /\ new_sheet_xml = <<>> /\ last_row = 0
    /\ patched_tables = <<>> /\ tp_i = 0 /\ item_i = 0 /\ zout = <<>> /\ result = <<>>
    /\ namespace_map = XL_NS_MAIN
    /\ WsIdle /\ TxtIdle /\ ConcIdle /\ ColIdle

findFrame == <<inputVars, table_paths, max_cols, new_sheet_xml, last_row, patched_tables,
               tp_i, item_i, zout, result, namespace_map, wsVars, txtVars, concVars, colVars>>

\* line 620: the path is returned
FindSheetPath ==
    /\ pc = "find_call"
    /\ _find_sheet_part_path(master, sheet_name).found
    /\ sheet_path' = _find_sheet_part_path(master, sheet_name).path
    /\ pc' = "find_returned"
    /\ UNCHANGED findFrame

\* lines 611 and 616: ValueError
FindSheetPathRaises ==
    /\ pc = "find_call"
    /\ ~_find_sheet_part_path(master, sheet_name).found
    /\ pc' = "find_raised"
    /\ UNCHANGED <<findFrame, sheet_path>>

NextFind == FindSheetPath \/ FindSheetPathRaises

SpecFind == InitFind /\ [][NextFind]_vars

(***************************************************************************)
(* _get_table_paths_for_sheet on its own (specification SpecTables): the   *)
(* sheet's relationships part is absent, malformed, or holds up to MaxRels *)
(* relationships of every type and target form.                            *)
(***************************************************************************)
\* the last segment of the Type of a relationship of a worksheet
SheetRelTypes == {"table", "drawing", "tableSingleCells"}

\* Target of a relationship of a worksheet: relative with a leading "../",
\* rooted at xl/, or relative to xl/
TableTargetForms ==
    { <<"..", "tables", "table1.xml">>,
      <<"..", "tables", "table2.xml">>,
      <<"xl", "tables", "table1.xml">>,
      <<"tables", "table2.xml">> }

SheetRels == {Rel(id, type, t) : id \in {"rId1"}, type \in SheetRelTypes,
                                 t \in TableTargetForms}

TablesPackage(sheetrels) ==
    << Part(WORKBOOK, [ok |-> TRUE, sheets |-> <<SheetEntry(MASTER_TEMPLATE_SHEET, "rId1")>>]),
       Part(WORKBOOK_RELS, [ok |-> TRUE, rels |->
                               <<Rel("rId1", "worksheet", <<"worksheets", "sheet1.xml">>)>>]),
       Part(SHEET1, Worksheet(OrigRows(1), <<>>, <<>>, <<>>)) >>
    \o [k \in 1..Len(sheetrels) |-> Part(SHEET1_RELS, sheetrels[k])]
    \o << Part(TABLE1, Table(TableRef0, <<>>, <<>>)) >>

InitTables ==
    /\ master \in {TablesPackage(sr) :
                      sr \in {<<>>, <<[ok |-> FALSE, rels |-> <<>>]>>}
                          \cup {<<[ok |-> TRUE, rels |-> rels]>> :
                                   rels \in UNION {[1..k -> SheetRels] : k \in 0..MaxRels}}}
    /\ sheet_path = SHEET1
    /\ sheet_name = "" /\ header_row = 0 /\ start_row = 0
    /\ used_cols = 0 /\ block_2d = <<>> /\ pc = "tables_call"
    /\ table_paths = <<>> /\ max_cols = 0 /\ new_sheet_xml = <<>> /\ last_row = 0
    /\ patched_tables = <<>> /\ tp_i = 0 /\ item_i = 0 /\ zout = <<>> /\ result = <<>>
    /\ namespace_map = XL_NS_MAIN
    /\ WsIdle /\ TxtIdle /\ ConcIdle /\ ColIdle

tablesFrame == <<inputVars, sheet_path, max_cols, new_sheet_xml, last_row, patched_tables,
                 tp_i, item_i, zout, result, namespace_map, wsVars, txtVars, concVars, colVars>>

\* lines 624 and 632: the list is returned
TablePathsReturned ==
    /\ pc = "tables_call"
    /\ ~SheetRelsBroken
    /\ table_paths' = _get_table_paths_for_sheet(master, sheet_path)
    /\ pc' = "tables_returned"
    /\ UNCHANGED tablesFrame

\* line 625: ET.fromstring raises ParseError
TablePathsRaises ==
    /\ pc = "tables_call"
    /\ SheetRelsBroken
    /\ pc' = "tables_raised"
    /\ UNCHANGED <<tablesFrame, table_paths>>

NextTables == TablePathsReturned \/ TablePathsRaises

SpecTables == InitTables /\ [][NextTables]_vars

(***************************************************************************)
(* _col_letter and _col_number on their own (specification SpecCols):      *)
(* every column number up to MaxColNumber is turned into letters and back. *)
(***************************************************************************)
InitCols ==
    /\ col_n \in 0..MaxColNumber
    /\ col_letters = <<>> /\ col_back = 0 /\ col_pc = "call"
    /\ PkgIdle /\ WsIdle /\ TxtIdle /\ ConcIdle

\* lines 72-75
ToLetters ==
    /\ col_pc = "call"
    /\ col_letters' = _col_letter(col_n)
    /\ col_pc' = "lettered"
    /\ UNCHANGED <<col_n, col_back, pkgVars, wsVars, txtVars, concVars>>

\* lines 76-81, on the letters of lines 72-75
ToNumber ==
    /\ col_pc = "lettered"
    /\ col_back' = _col_number(col_letters)
    /\ col_pc' = "done"
    /\ UNCHANGED <<col_n, col_letters, pkgVars, wsVars, txtVars, concVars>>

NextCols == ToLetters \/ ToNumber

SpecCols == InitCols /\ [][NextCols]_vars

(***************************************************************************)
(* Properties of fast_patch_template (specification Spec).                 *)
(***************************************************************************)
Returned == pc = "done"
Output   == result[1]

\* the positions of the output package that hold a part of that name
OutputAt(fn) == {m \in 1..Len(Output) : Output[m].name = fn}

\* C1: when an output is returned, every part that is not the resolved sheet
\* part, not a successfully patched table part, not the content-types part
\* and not the calculation-cache part is in the output with the content it
\* has in the input.
C1_Passthrough ==
    Returned =>
        \A k \in 1..Len(master) :
            LET fn == master[k].name
            IN  (/\ fn # sheet_path
                 /\ ~IsPatched(patched_tables, fn)
                 /\ LowerName(fn) # <<"[content_types].xml">>
                 /\ LowerName(fn) # <<"xl", "calcchain.xml">>) =>
                    /\ Cardinality(OutputAt(fn)) = 1
                    /\ \A m \in OutputAt(fn) : Output[m].body = master[k].body

\* C1 witness: an output is returned for a package with a second worksheet,
\* a patched table and a bound table that could not be patched.
C1_Witness ==
    /\ Returned
    /\ HasPart(master, SHEET2)
    /\ IsPatched(patched_tables, TABLE2)
    /\ TABLE1 \in {table_paths[k] : k \in 1..Len(table_paths)}
    /\ ~IsPatched(patched_tables, TABLE1)

NewExtent == ExtentRef(header_row, max_cols, Max(header_row, start_row + Len(block_2d) - 1))

\* C7 as stated: every patched table has ref and autoFilter ref equal to
\* A{H}:{columnLetter(C)}{max(H, S+R-1)}, and a declared column count equal
\* to the number of column definitions present.
C7_TableRefAndFilterAgree ==
    Returned =>
        \A k \in 1..Len(patched_tables) :
            \A m \in OutputAt(patched_tables[k].name) :
                LET t == Output[m].body
                IN  /\ t.ref = NewExtent
                    /\ t.autoFilter # <<>>
                    /\ \A a \in 1..Len(t.autoFilter) : t.autoFilter[a].ref = NewExtent
                    /\ \A c \in 1..Len(t.tableColumns) :
                          t.tableColumns[c].count = t.tableColumns[c].children

\* C8 as stated: the output holds no calculation-cache part and its
\* content-types part holds no Override for it, also when the content-types
\* part does not parse.
C8_NoCalcChainNoOverride ==
    Returned =>
        /\ \A m \in 1..Len(Output) : LowerName(Output[m].name) # <<"xl", "calcchain.xml">>
        /\ \A m \in 1..Len(Output) :
              LowerName(Output[m].name) = <<"[content_types].xml">> =>
                  \A o \in 1..Len(Output[m].body.overrides) :
                      lower(Output[m].body.overrides[o]) # "/xl/calcchain.xml"

\* C8 amended: the output holds no calculation-cache part, and when the
\* content-types part parses, the output's content-types part holds no
\* Override for it (a content-types part that does not parse is passed
\* through with the entries it has).
C8_NoCalcChainNoOverrideIfParsed ==
    Returned =>
        /\ \A m \in 1..Len(Output) : LowerName(Output[m].name) # <<"xl", "calcchain.xml">>
        /\ Parses(ReadPart(master, CONTENT_TYPES)) =>
              \A m \in 1..Len(Output) :
                  LowerName(Output[m].name) = <<"[content_types].xml">> =>
                      \A o \in 1..Len(Output[m].body.overrides) :
                          lower(Output[m].body.overrides[o]) # "/xl/calcchain.xml"

\* C8 witness: an output is returned for a package that held the
\* calculation-cache part, spelt in upper case, and a well-formed
\* content-types part with its Override.
C8_Witness ==
    /\ Returned
    /\ HasPart(master, CALCCHAIN_UC)
    /\ Parses(ReadPart(master, CONTENT_TYPES))
    /\ \E o \in 1..Len(ReadPart(master, CONTENT_TYPES).overrides) :
          ReadPart(master, CONTENT_TYPES).overrides[o] = "/xl/CALCCHAIN.XML"

\* no sheet entry of the workbook has the requested name
NameMissing ==
    \A k \in 1..Len(ReadPart(master, WORKBOOK).sheets) :
        ReadPart(master, WORKBOOK).sheets[k].name # sheet_name

\* the relationship-id of the named sheet has no entry in the workbook's
\* relationship table
RelationshipMissing ==
    /\ ~NameMissing
    /\ LET sheets == ReadPart(master, WORKBOOK).sheets
           rid == sheets[CHOOSE k \in 1..Len(sheets) :
                            /\ sheets[k].name = sheet_name
                            /\ \A m \in 1..(k - 1) : sheets[m].name # sheet_name].rid
       IN  \A k \in 1..Len(ReadPart(master, WORKBOOK_RELS).rels) :
               ReadPart(master, WORKBOOK_RELS).rels[k].Id # rid

NothingPatched ==
    /\ new_sheet_xml = <<>> /\ patched_tables = <<>> /\ zout = <<>> /\ result = <<>>

\* C9: when the sheet name or its relationship is missing, the call ends in
\* an error with no part patched and no output package.
C9_NotFoundIsFatal ==
    (NameMissing \/ RelationshipMissing) =>
        /\ pc \in {"start", "error"}
        /\ NothingPatched

\* C9 witness: the call has ended in the error for a workbook that names the
\* sheet but has no relationship for it.
C9_Witness == pc = "error" /\ RelationshipMissing

\* the part the sheet name resolves to is in the package and is malformed
PrimarySheetMalformed ==
    /\ _find_sheet_part_path(master, sheet_name).found
    /\ HasPart(master, _find_sheet_part_path(master, sheet_name).path)
    /\ ~ReadPart(master, _find_sheet_part_path(master, sheet_name).path).ok

\* C10: when the primary worksheet part is malformed, the call ends in an
\* error: nothing is written to an output and no package is returned.
C10_MalformedSheetIsFatal ==
    PrimarySheetMalformed =>
        /\ pc \in {"start", "find_tables", "read_cols", "error"}
        /\ zout = <<>>
        /\ result = <<>>

\* C10 witness: the call has ended in the error past the table loop, for a
\* package whose tables and content types are well formed.
C10_Witness ==
    /\ pc = "error"
    /\ PrimarySheetMalformed
    /\ Len(table_paths) = 2
    /\ \A k \in 1..Len(table_paths) :
          HasPart(master, table_paths[k]) /\ ReadPart(master, table_paths[k]).ok
    /\ ReadPart(master, CONTENT_TYPES).ok

BoundTables == {table_paths[k] : k \in 1..Len(table_paths)}

\* the patch of a bound table part fails: the part is missing or malformed
TableFails(tp) == ~HasPart(master, tp) \/ ~ReadPart(master, tp).ok

\* C11: a table failure never aborts the call (the only errors come before the
\* sheet is patched), and in the output returned every bound table part whose
\* patch failed has its input content (a missing one stays missing), every
\* other bound table part is the patch of its input content, and the sheet
\* part is the patched sheet.
C11_TableFailureIsContained ==
    /\ pc = "error" => new_sheet_xml = <<>> /\ patched_tables = <<>>
    /\ Returned =>
          /\ \A tp \in BoundTables :
                IF TableFails(tp)
                THEN /\ HasPart(master, tp) => OutputAt(tp) # {}
                     /\ \A m \in OutputAt(tp) : Output[m].body = ReadPart(master, tp)
                ELSE /\ OutputAt(tp) # {}
                     /\ \A m \in OutputAt(tp) :
                           SansPrefix(Output[m].body) =
                               SansPrefix(_patch_table_xml(ReadPart(master, tp), header_row,
                                              LastRow(header_row, start_row, Len(block_2d)),
                                              max_cols))
          /\ OutputAt(sheet_path) # {}
          /\ \A m \in OutputAt(sheet_path) :
                SansPrefix(Output[m].body) =
                    SansPrefix(_patch_sheet_xml(ReadPart(master, sheet_path), header_row,
                                                start_row, max_cols, block_2d))

\* C11 witness: an output is returned for a sheet bound to a malformed table
\* and to a well-formed one.
C11_Witness ==
    /\ Returned
    /\ \E tp \in BoundTables : HasPart(master, tp) /\ ~ReadPart(master, tp).ok
    /\ \E tp \in BoundTables : ~TableFails(tp) /\ IsPatched(patched_tables, tp)

\* C11 witness of the other failure: an output is returned for a sheet bound
\* to a table part the package does not hold.
C11_WitnessMissing ==
    /\ Returned
    /\ \E tp \in BoundTables : ~HasPart(master, tp)
    /\ patched_tables # <<>>

\* the sheet part of the output is the patched sheet
SheetIsPatched ==
    /\ OutputAt(sheet_path) # {}
    /\ \A m \in OutputAt(sheet_path) :
          SansPrefix(Output[m].body) =
              SansPrefix(_patch_sheet_xml(ReadPart(master, sheet_path), header_row,
                                          start_row, max_cols, block_2d))

\* every bound table part that is there and well formed is patched in the output
TablesArePatched ==
    \A tp \in BoundTables :
        ~TableFails(tp) =>
            /\ OutputAt(tp) # {}
            /\ \A m \in OutputAt(tp) :
                  SansPrefix(Output[m].body) =
                      SansPrefix(_patch_table_xml(ReadPart(master, tp), header_row,
                                     LastRow(header_row, start_row, Len(block_2d)),
                                     max_cols))

\* C12: a content-types part that does not parse never aborts the call (no
\* error once the output archive is being written), and the output returned
\* has the content-types part with exactly its input content, the patched
\* sheet, the patched tables, and no calculation-cache part.
C12_ContentTypesFailureIsContained ==
    /\ pc = "error" => zout = <<>>
    /\ (Returned /\ ~Parses(ReadPart(master, CONTENT_TYPES))) =>
          /\ Cardinality(OutputAt(CONTENT_TYPES)) = 1
          /\ \A m \in OutputAt(CONTENT_TYPES) :
                Output[m].body = ReadPart(master, CONTENT_TYPES)
          /\ SheetIsPatched
          /\ TablesArePatched
          /\ \A m \in 1..Len(Output) : ~IsCalcChain(Output[m].name)

\* C12 witness: an output is returned for a package with a malformed
\* content-types part that names the calculation-cache part, with that part
\* and with a patched table.
C12_Witness ==
    /\ Returned
    /\ ~Parses(ReadPart(master, CONTENT_TYPES))
    /\ \E o \in 1..Len(ReadPart(master, CONTENT_TYPES).overrides) :
          IsCalcChainOverride(ReadPart(master, CONTENT_TYPES).overrides[o])
    /\ HasPart(master, CALCCHAIN)
    /\ patched_tables # <<>>

\* C13, first half: fast_patch_template changes no process-wide state (the
\* namespace registry stays as lines 39-42 left it).
C13_RegistryUnchanged == namespace_map = XL_NS_MAIN

\* C13 as stated: the output of every invocation of a sequence in one
\* process, serialisation of the sheet and table parts included, is the
\* output the same call gives when made first in a fresh process.
C13_OutputDependsOnArgumentsOnly ==
    Returned =>
        Output = FastPatchFresh(master, sheet_name, header_row, start_row,
                                used_cols, block_2d)

\* the output of the session's call made alone, first in a fresh process
AloneOutput(p) ==
    FastPatchFresh(sessions[p].zin, ConcArgs.sheet_name, ConcArgs.header_row,
                   ConcArgs.start_row, ConcArgs.used_cols, ConcArgs.block_2d)

\* C14 as stated: whatever the interleaving of the two sessions' steps, each
\* invocation returns the output it returns when run alone.
C14_SameOutputAsAlone ==
    \A p \in Sessions :
        sessions[p].pc = "done" => sessions[p].result[1] = AloneOutput(p)

\* the names of the parts of a package, in archive order
PartNames(pkg) == [k \in 1..Len(pkg) |-> pkg[k].name]

\* C15: the sequence of part names of the output is the sequence of part
\* names of the input without the calculation-cache part: nothing is added,
\* duplicated, dropped or reordered.
C15_PartOrderPreserved ==
    Returned =>
        PartNames(Output) =
            SelectSeq(PartNames(master),
                      LAMBDA fn : LowerName(fn) # <<"xl", "calcchain.xml">>)

\* C15 witness: an output is returned for a package that held the
\* calculation-cache part, spelt in upper case, between other parts, and two
\* patched tables.
C15_Witness ==
    /\ Returned
    /\ HasPart(master, CALCCHAIN_UC)
    /\ Len(patched_tables) = 2
    /\ Len(Output) = Len(master) - 1

\* the scenario is the call at hand
InScenario == ws_in = ScenarioSheet /\ ws_args = ScenarioArgs

\* the rows of a worksheet with row index r
RowsAt(doc, r) == SelectSeq(doc.rows, LAMBDA row : row.r = r)

\* a worksheet has one row with index r, and its cells are, in order, the
\* inline-string cells cells[k] = <<column letters, text>>
RowHolds(doc, r, cells) ==
    /\ Len(RowsAt(doc, r)) = 1
    /\ RowsAt(doc, r)[1].cells =
          [k \in 1..Len(cells) |-> InlineCell(cells[k][1], r, cells[k][2])]

\* C16 as stated: in the scenario, row 3 has cells only at A3 = "A1" and
\* B3 = "B1", and row 4 has a cell only at D4 = "D2".
C16_ScenarioAsStated ==
    (SheetReturned /\ InScenario) =>
        /\ RowHolds(WsOut, 3, << << <<"A">>, <<"A", "1">> >>, << <<"B">>, <<"B", "1">> >> >>)
        /\ RowHolds(WsOut, 4, << << <<"D">>, <<"D", "2">> >> >>)

\* C16 amended: in the scenario, row 3 has cells only at A3 = "A1" and
\* B3 = "B1", and row 4 has a cell only at B4 = "D2": the value at index 1
\* of the second block row goes to the second column.
C16_ScenarioByIndex ==
    (SheetReturned /\ InScenario) =>
        /\ RowHolds(WsOut, 3, << << <<"A">>, <<"A", "1">> >>, << <<"B">>, <<"B", "1">> >> >>)
        /\ RowHolds(WsOut, 4, << << <<"B">>, <<"D", "2">> >> >>)

\* C16 witness: the scenario's call has returned a sheet with rows 3 and 4.
C16_Witness ==
    /\ SheetReturned
    /\ InScenario
    /\ Len(RowsAt(WsOut, 3)) = 1
    /\ Len(RowsAt(WsOut, 4)) = 1

\* the number of columns a two-corner ref spans
RefWidth(ref) == _col_number(ref.c2) - _col_number(ref.c1) + 1

\* C18 as stated: in the output, every patched table that has a column list
\* has as many column definitions, and as large a declared count, as its ref
\* spans columns.
C18_ColumnsMatchRef ==
    Returned =>
        \A k \in 1..Len(patched_tables) :
            \A m \in OutputAt(patched_tables[k].name) :
                LET t == Output[m].body
                IN  \A c \in 1..Len(t.tableColumns) :
                        /\ t.tableColumns[c].children = RefWidth(t.ref)
                        /\ t.tableColumns[c].count = RefWidth(t.ref)

(***************************************************************************)
(* Properties of the calculation-cache invalidation (specification         *)
(* SpecCalc).                                                              *)
(***************************************************************************)
\* the content-types entries of a package: the Overrides of its manifest
ContentTypesEntries(pkg) ==
    [k \in 1..Len(SelectSeq(pkg, LAMBDA it : LowerName(it.name) = <<"[content_types].xml">>)) |->
        SelectSeq(pkg, LAMBDA it : LowerName(it.name) = <<"[content_types].xml">>)[k].body.overrides]

\* a package with neither the calculation-cache part nor an Override for it
NoCalcChainAtAll(pkg) ==
    /\ \A k \in 1..Len(pkg) : LowerName(pkg[k].name) # <<"xl", "calcchain.xml">>
    /\ \A k \in 1..Len(ContentTypesEntries(pkg)) :
          \A o \in 1..Len(ContentTypesEntries(pkg)[k]) :
              lower(ContentTypesEntries(pkg)[k][o]) # "/xl/calcchain.xml"

\* C19: the invalidation leaves the parts and the content-types entries of a
\* package with neither the calculation-cache part nor its Override as they
\* are, and applied twice it gives the parts and the entries it gives applied
\* once.
C19_InvalidationIdempotent ==
    /\ (pc = "calc_once" /\ NoCalcChainAtAll(master)) =>
          /\ PartNames(zout) = PartNames(master)
          /\ ContentTypesEntries(zout) = ContentTypesEntries(master)
    /\ pc = "calc_twice" =>
          /\ PartNames(zout) = PartNames(result[1])
          /\ ContentTypesEntries(zout) = ContentTypesEntries(result[1])

\* C19 witness: the invalidation has been applied twice to a package that
\* held the calculation-cache part and its Override in a well-formed
\* manifest.
C19_Witness ==
    /\ pc = "calc_twice"
    /\ ~NoCalcChainAtAll(master)
    /\ HasPart(master, CALCCHAIN)
    /\ Parses(ReadPart(master, CONTENT_TYPES))
    /\ NoCalcChainAtAll(zout)

\* C19 witness of the first half: the invalidation has been applied to a
\* package with neither the part nor the Override.
C19_WitnessNothingToDo ==
    /\ pc = "calc_once"
    /\ NoCalcChainAtAll(master)
    /\ Parses(ReadPart(master, CONTENT_TYPES))

(***************************************************************************)
(* Properties of _find_sheet_part_path (specification SpecFind).           *)
(***************************************************************************)
\* the position of the first sheet entry with that name, and of the first
\* relationship with that Id, as sets (empty when there is none)
FirstSheetNamed(sheets, name) ==
    {k \in 1..Len(sheets) : /\ sheets[k].name = name
                            /\ \A m \in 1..(k - 1) : sheets[m].name # name}

FirstRelWithId(rels, rid) ==
    {k \in 1..Len(rels) : /\ rels[k].Id = rid
                          /\ \A m \in 1..(k - 1) : rels[m].Id # rid}

\* the part a Target of the workbook's relationship table refers to: from the
\* package root when it has a leading "/", else under xl/ (with a leading
\* "../" dropped, and as it is when it is rooted at xl/ already)
ReferredPart(target) ==
    IF Head(target) = "" THEN Tail(target)
    ELSE IF Head(target) = ".." THEN <<"xl">> \o Tail(target)
    ELSE IF Head(target) = "xl" THEN target
    ELSE <<"xl">> \o target

\* C20 as stated: the path returned is found in two hops (first sheet entry
\* with exactly that name, first relationship with its id), has no leading
\* "../", starts with "xl/", and names the part the relationship refers to,
\* whatever the form of the Target.
C20_ResolvesEveryTargetForm ==
    pc = "find_returned" =>
        LET sheets == ReadPart(master, WORKBOOK).sheets
            rels   == ReadPart(master, WORKBOOK_RELS).rels
        IN  \E k \in FirstSheetNamed(sheets, sheet_name) :
                \E m \in FirstRelWithId(rels, sheets[k].rid) :
                    /\ Head(sheet_path) = "xl"
                    /\ sheet_path = ReferredPart(rels[m].Target)
                    /\ HasPart(master, sheet_path)

\* C27 as stated: every patched table has exactly one autoFilter element
\* in the output, carrying the new ref; when the input had one, with or
\* without child elements, it is that element (its children are kept) and
\* no second one is appended.
C27_OneAutoFilter ==
    Returned =>
        \A k \in 1..Len(patched_tables) :
            \A m \in OutputAt(patched_tables[k].name) :
                LET t   == Output[m].body
                    old == ReadPart(master, patched_tables[k].name)
                IN  /\ Len(t.autoFilter) = 1
                    /\ t.autoFilter[1].ref = NewExtent
                    /\ old.autoFilter # <<>> =>
                          t.autoFilter[1].children = old.autoFilter[1].children

\* the column counts a readable bound table asks for: its declared count and
\* the number of its column definitions
TableColumnCounts(tp) ==
    IF HasPart(master, tp) /\ ReadPart(master, tp).ok
       /\ ReadPart(master, tp).tableColumns # <<>>
    THEN {ReadPart(master, tp).tableColumns[1].count,
          ReadPart(master, tp).tableColumns[1].children}
    ELSE {}

\* the largest of the supplied column count and of the counts of the tables
ExpectedCols ==
    LET cands == {used_cols} \cup UNION {TableColumnCounts(tp) : tp \in BoundTables}
    IN  CHOOSE x \in cands : \A y \in cands : y <= x

ExpectedLastRow == Max(header_row, start_row + Len(block_2d) - 1)

\* C28: in the output of one invocation the sheet and every patched table
\* were patched with the same column count C and last row: C is the largest
\* of used_cols and of the declared count and the number of column
\* definitions of every readable bound table, the last row is max(H, S+R-1);
\* the new rows span 1..C, the dimension reaches column C and the last row,
\* the sheet's autoFilter and every patched table's ref end at column C and
\* the last row, C >= used_cols, and no patched table's ref is narrower than
\* its column definitions.
C28_OneExtentForSheetAndTables ==
    Returned =>
        /\ max_cols = ExpectedCols
        /\ max_cols >= used_cols
        /\ last_row = ExpectedLastRow
        /\ \A m \in OutputAt(sheet_path) :
              LET sh == Output[m].body
              IN  /\ \A k \in 1..Len(sh.rows) :
                        sh.rows[k].r >= start_row => sh.rows[k].spans = <<1, ExpectedCols>>
                  /\ _col_number(sh.dimension[1].c2) >= ExpectedCols
                  /\ sh.dimension[1].r2 >= ExpectedLastRow
                  /\ \A a \in 1..Len(sh.autoFilter) :
                        /\ sh.autoFilter[a].c2 = _col_letter(ExpectedCols)
                        /\ sh.autoFilter[a].r2 = ExpectedLastRow
                        /\ \A k \in 1..Len(patched_tables) :
                              \A n \in OutputAt(patched_tables[k].name) :
                                  /\ Output[n].body.ref.c2 = sh.autoFilter[a].c2
                                  /\ Output[n].body.ref.r2 = sh.autoFilter[a].r2
        /\ \A k \in 1..Len(patched_tables) :
              \A n \in OutputAt(patched_tables[k].name) :
                  LET t == Output[n].body
                  IN  /\ t.ref = Range(<<"A">>, header_row, _col_letter(ExpectedCols),
                                       ExpectedLastRow)
                      /\ \A c \in 1..Len(t.tableColumns) :
                            RefWidth(t.ref) >= t.tableColumns[c].children

\* C28 witness: an output is returned for a sheet with an autoFilter and a
\* non-empty block, bound to a patched table whose declared count is above
\* its column definitions and above used_cols, and to another patched table.
C28_Witness ==
    /\ Returned
    /\ Len(patched_tables) = 2
    /\ Len(block_2d) > 0
    /\ max_cols > used_cols
    /\ \E tp \in BoundTables :
          /\ TableColumnCounts(tp) # {}
          /\ ReadPart(master, tp).tableColumns[1].count
                > ReadPart(master, tp).tableColumns[1].children
          /\ ReadPart(master, tp).tableColumns[1].count = max_cols
    /\ \E m \in OutputAt(sheet_path) : Output[m].body.autoFilter # <<>>

(***************************************************************************)
(* Properties of _get_table_paths_for_sheet (specification SpecTables).    *)
(***************************************************************************)
\* a Target with a leading "../" dropped and rooted under xl/
NormalizedTarget(target) ==
    LET t == IF Head(target) = ".." THEN Tail(target) ELSE target
    IN  IF Head(t) = "xl" THEN t ELSE <<"xl">> \o t

\* C21: the list returned is empty when the sheet's relationships part is
\* absent; otherwise it holds, in relationship order, the normalized target
\* of every relationship whose type is the table type, and nothing else.
C21_TablePathsAreTableTargets ==
    pc = "tables_returned" =>
        IF ~HasPart(master, SHEET1_RELS) THEN table_paths = <<>>
        ELSE LET rels   == ReadPart(master, SHEET1_RELS).rels
                 tables == SelectSeq(rels, LAMBDA rel : rel.Type = "table")
             IN  table_paths = [k \in 1..Len(tables) |-> NormalizedTarget(tables[k].Target)]

\* C21 witness: a list is returned for a part that holds a table
\* relationship after a relationship of another type.
C21_Witness ==
    /\ pc = "tables_returned"
    /\ HasPart(master, SHEET1_RELS)
    /\ Len(ReadPart(master, SHEET1_RELS).rels) = 2
    /\ ReadPart(master, SHEET1_RELS).rels[1].Type = "tableSingleCells"
    /\ ReadPart(master, SHEET1_RELS).rels[2].Type = "table"
    /\ Len(table_paths) = 1

\* C21 witness of the first half: the empty list is returned for a package
\* without the relationships part.
C21_WitnessAbsent ==
    /\ pc = "tables_returned"
    /\ ~HasPart(master, SHEET1_RELS)
    /\ table_paths = <<>>

(***************************************************************************)
(* Properties of the column conversions (specification SpecCols).          *)
(***************************************************************************)
\* the digit of a letter, A = 1 to Z = 26, and 0 for anything else
DigitOf(ch) == IF \E d \in 1..26 : Letters[d] = ch
               THEN CHOOSE d \in 1..26 : Letters[d] = ch ELSE 0

RECURSIVE Power26(_)
Power26(k) == IF k = 0 THEN 1 ELSE 26 * Power26(k - 1)

\* the value of a numeral: the sum of digit * 26^(place from the right)
RECURSIVE NumeralValue(_)
NumeralValue(w) ==
    IF w = <<>> THEN 0
    ELSE DigitOf(Head(w)) * Power26(Len(w) - 1) + NumeralValue(Tail(w))

\* C22: for n >= 1 the letters are a non-empty numeral whose digits are all
\* in A..Z (no zero digit) and whose base-26 value is n, and _col_number
\* gives n back; for n = 0 the letters are the empty string.
C22_ColumnLettersBijective ==
    /\ (col_pc \in {"lettered", "done"} /\ col_n >= 1) =>
          /\ col_letters # <<>>
          /\ \A k \in 1..Len(col_letters) : DigitOf(col_letters[k]) \in 1..26
          /\ NumeralValue(col_letters) = col_n
    /\ (col_pc \in {"lettered", "done"} /\ col_n = 0) => col_letters = <<>>
    /\ col_pc = "done" => col_back = col_n

\* C22 witness: a number with a carry (a multiple of 26 beyond Z) has gone
\* to three letters and back.
C22_Witness ==
    /\ col_pc = "done"
    /\ col_n > 26 /\ col_n % 26 = 0
    /\ Len(col_letters) = 3

(***************************************************************************)
(* Further properties of _patch_sheet_xml (specification SpecSheet).       *)
(***************************************************************************)
Min(a, b) == IF a <= b THEN a ELSE b

\* the new last row max(H, S+R-1)
WsNewLastRow == Max(WsH, WsS + WsR - 1)

\* the bounding box of a previous dimension (whatever its form: its corners
\* are c1 r1 and c2 r2) and of the range A{H}:{columnLetter(C)}{newLastRow}
BoundingBox(old, hdr, c, lrow) ==
    Range(_col_letter(Min(_col_number(old.c1), 1)), Min(old.r1, hdr),
          _col_letter(Max(_col_number(old.c2), c)), Max(old.r2, lrow))

\* C23 as stated: the output dimension is the bounding-box union of the
\* previous dimension and A{H}:{columnLetter(C)}{max(H, S+R-1)}, for every
\* header row and every previous dimension.
C23_DimensionIsBoundingBox ==
    (SheetReturned /\ ws_in.dimension # <<>>) =>
        WsOut.dimension = <<BoundingBox(ws_in.dimension[1], WsH, WsC, WsNewLastRow)>>

\* C24: a worksheet that has an autoFilter has it after patching with the
\* ref A{H}:{columnLetter(C)}{max(H, S+R-1)}, whose last row is not below
\* the header row; a worksheet without an autoFilter gets none.
C24_SheetAutoFilter ==
    SheetReturned =>
        IF ws_in.autoFilter # <<>>
        THEN /\ WsOut.autoFilter = <<Range(<<"A">>, WsH, _col_letter(WsC), WsNewLastRow)>>
             /\ WsOut.autoFilter[1].r2 >= WsH
        ELSE WsOut.autoFilter = <<>>

\* C24 witness: a sheet with an autoFilter is patched with an empty block
\* whose data-start row is the header row, so that S+R-1 is below H.
C24_Witness ==
    /\ SheetReturned
    /\ ws_in.autoFilter # <<>>
    /\ WsR = 0
    /\ WsS + WsR - 1 < WsH

\* C24 witness of the other half: a sheet without an autoFilter is patched.
C24_WitnessNoFilter ==
    /\ SheetReturned
    /\ ws_in.autoFilter = <<>>
    /\ WsR > 0

\* the rows of a worksheet with index s or more, in document order
RowsFrom(doc, s) == SelectSeq(doc.rows, LAMBDA row : row.r >= s)

\* C25: after patching, the rows with index >= S are, in document order, the
\* rows S, S+1, ..., S+R-1, each once (with or without cells); no retained
\* row comes after one of them; none of them is a row of the input; every
\* cell of such a row is a cell of that row; and for R = 0 there is no such
\* row.  The index of a row is its "r" attribute, 0 when it has none.
C25_DataRowsAreTheBlockRows ==
    SheetReturned =>
        /\ Len(RowsFrom(WsOut, WsS)) = WsR
        /\ \A i \in 1..WsR : RowsFrom(WsOut, WsS)[i].r = WsS + i - 1
        /\ \A p \in 1..Len(WsOut.rows) : \A q \in 1..Len(WsOut.rows) :
              (p < q /\ WsOut.rows[p].r >= WsS) => WsOut.rows[q].r >= WsS
        /\ \A i \in 1..WsR :
              /\ RowsFrom(WsOut, WsS)[i] = NewRow(WsB[i], WsS + i - 1, WsC)
              /\ \A k \in 1..Len(RowsFrom(WsOut, WsS)[i].cells) :
                    /\ RowsFrom(WsOut, WsS)[i].cells[k].row = WsS + i - 1
                    /\ RowsFrom(WsOut, WsS)[i].cells[k].t = "inlineStr"
        /\ \A p \in 1..Len(WsOut.rows) :
              \A k \in 1..Len(WsOut.rows[p].cells) :
                  WsOut.rows[p].cells[k].row >= WsS => WsOut.rows[p].r >= WsS

\* C25 witness: a sheet whose input had two rows at S or below is patched
\* with two block rows, one of which gives a row without cells.
C25_Witness ==
    /\ SheetReturned
    /\ Len(RowsFrom(ws_in, WsS)) >= 2
    /\ WsR = 2
    /\ \E i \in 1..WsR : RowsFrom(WsOut, WsS)[i].cells = <<>>
    /\ \E i \in 1..WsR : RowsFrom(WsOut, WsS)[i].cells # <<>>

\* C25 witness for R = 0: a sheet whose input had rows at S or below is
\* patched with the empty block.
C25_WitnessEmptyBlock ==
    /\ SheetReturned
    /\ Len(RowsFrom(ws_in, WsS)) >= 1
    /\ WsR = 0

\* a merge range lies wholly above row s
WhollyAbove(mc, s) == Max(mc.r1, mc.r2) < s

\* the mergeCell refs of a worksheet, none when it has no collection
MergeRefs(doc) == IF doc.mergeCells = <<>> THEN <<>> ELSE doc.mergeCells[1]

\* C26: after patching a worksheet that has a merge collection, the
\* collection is in the output exactly when a range is left in it (it is
\* never kept empty, and never dropped with a range in it); the ranges
\* wholly above row S are left, unchanged and in their order; and no range
\* is left that the input did not have.
C26_MergeCollection ==
    (SheetReturned /\ ws_in.mergeCells # <<>>) =>
        /\ WsOut.mergeCells # <<>> => Len(WsOut.mergeCells[1]) > 0
        /\ (\E k \in 1..Len(MergeRefs(ws_in)) : WhollyAbove(MergeRefs(ws_in)[k], WsS))
              => WsOut.mergeCells # <<>>
        /\ SelectSeq(MergeRefs(WsOut), LAMBDA mc : WhollyAbove(mc, WsS))
              = SelectSeq(MergeRefs(ws_in), LAMBDA mc : WhollyAbove(mc, WsS))
        /\ \A k \in 1..Len(MergeRefs(WsOut)) :
              \E m \in 1..Len(MergeRefs(ws_in)) : MergeRefs(WsOut)[k] = MergeRefs(ws_in)[m]
        /\ Len(WsOut.mergeCells) <= 1

\* C26 witness: the only range of the collection reached row S, and the
\* collection has gone with it.
C26_Witness ==
    /\ SheetReturned
    /\ Len(MergeRefs(ws_in)) = 1
    /\ ~WhollyAbove(MergeRefs(ws_in)[1], WsS)
    /\ WsOut.mergeCells = <<>>

\* C26 witness of the other half: one range of two has gone, the one wholly
\* above row S is left in the collection.
C26_WitnessSurvivor ==
    /\ SheetReturned
    /\ Len(MergeRefs(ws_in)) = 2
    /\ Len(MergeRefs(WsOut)) = 1
    /\ WhollyAbove(MergeRefs(WsOut)[1], WsS)

(***************************************************************************)
(* Properties of the cell text (specification SpecText).                   *)
(***************************************************************************)
\* the characters of the alphabet that are XML control characters
\* (U+0000-U+0008, U+000B, U+000C, U+000E-U+001F) or surrogates
ControlOrSurrogate == {"x01", "x1F", "uD800"}

\* C17: the text written to a cell holds no XML control character and no
\* surrogate code point, whatever the value it was made from.
C17_NoControlCharacterWritten ==
    txt_pc = "returned" =>
        \A k \in 1..Len(txt_out) : txt_out[k] \notin ControlOrSurrogate

\* C17 witness: a text is written for a value that held a control character,
\* and another one, or a surrogate, next to an ordinary character.
C17_Witness ==
    /\ txt_pc = "returned"
    /\ txt_out # <<>>
    /\ Cardinality({txt_val[k] : k \in 1..Len(txt_val)} \cap ControlOrSurrogate) >= 2

====
